---- MODULE Spec2Model ----
(***************************************************************************)
(* Model of the airbnb_automation journey: the six stage classes under     *)
(* automation/steps, the AirbnbJourney steps of automation/utils/steps.py  *)
(* and the two management commands that orchestrate them.                  *)
(*                                                                         *)
(* The browser page is the environment.  A call such as is_visible,        *)
(* is_enabled or click has an outcome the program does not control; each   *)
(* outcome is drawn with \E where the code makes the call.                 *)
(*                                                                         *)
(* The module holds one specification per component; the variables of the  *)
(* other components stay at their idle values.                             *)
(***************************************************************************)
EXTENDS Integers, Sequences, FiniteSets, TLC

VARIABLES
    \* ---- ordered locator-candidate lists (SpecResolve)
    rFn,        \* which candidate loop is running
    rPc,        \* "loop" while candidates remain, "done" after the return
    rObs,       \* what was observed for each candidate consulted so far
    rReturned,  \* index of the candidate the loop ended on, 0 = none
    \* ---- probe-polling waits (SpecWait)
    wFn,        \* which polling loop is running
    wPc,        \* "guard", "probe", "sleep", "done"
    wStart,     \* start = time.time(), in ms
    wNow,       \* time.time(), in ms
    wProbe,     \* index of the next probe of the current round
    wSeen,      \* a probe has answered "visible"
    wResult,    \* the value returned
    wSkipped,   \* a probe was left out of its round because an earlier one raised
    \* ---- run_airbnb_automation: Command.handle / _run_journey (SpecJourney)
    jStep,      \* --step: 0 = full journey, 1..6 = stop after that stage
    jStoreDb,   \* --store-db
    jPc,        \* "start", "step01".."step06", "final", "raising", "done", "raised"
    jResults,   \* the save_test_result calls so far, in order
    jCountry,   \* selected_country
    jSuggestionOk, \* suggestion_ok
    jDates,     \* date_info
    jGuests,    \* guest_count
    jListings,  \* len(listings)
    jDetails,   \* bool(details)
    jAllFail,   \* so far every locator candidate and every probe has failed
    jSinkFailedAt, \* the stage in which a save_* call raised, 0 if none
    \* ---- run_airbnb_journey: Command.handle with StepLogger (SpecCommand)
    cPc,        \* "enter", "step", "drain", "exit", "finally", "done"
    cIdx,       \* position in `steps` of the step_fn to call next, 1..6
    cEntered,   \* BrowserManager.__enter__ returned
    cAttempted, \* the step numbers whose step_fn has been called, in order
    cTestCases, \* TestCase rows of the run, in creation order
    cOverall,   \* overall_passed
    cStatus,    \* test_run.status
    cFinished,  \* test_run.finished_at is set
    cNetBuf,    \* bm._network_logs
    cConBuf,    \* bm._console_logs
    cSaved,     \* events persisted by log_network / log_console, in order
    cEvents,    \* number of events the listeners have captured
    cLostAt,    \* the step during which the browser session was lost, 0 if none
    cFatal,     \* the outer `except Exception as fatal` ran
    cMark,      \* number of events captured when the buffers were last drained
    \* ---- Step02AutoSuggestion.run against one page (SpecSuggestion)
    sPc,        \* "begin", "click", "ensure", "returned"
    sCalls,     \* calls of run made so far
    sProbes,    \* page: what each date-picker probe finds
    sSugg,      \* page: the suggestion rows
    sPre,       \* _date_picker_visible() at the start of the current call
    sClicks,    \* click calls issued by the current call
    sKeys,      \* keyboard.press calls issued by the current call
    sTyped,     \* fill / type calls issued by the current call
    sResults,   \* results recorded by the current call
    sReturn,    \* value returned by the current call
    sPrev,      \* outcomes of the earlier calls, in order
    sTier,      \* tier of _click_top_suggestion whose click went through, 0 = none
    \* ---- date selection of both programs on one calendar (SpecDates)
    dPc,        \* "available", "js", "role", "random", "journey", "done"
    dDays,      \* page: labels of the available day elements, document order
    dTries,     \* iterations of _select_two_available_days used so far
    dPath,      \* the selection path that ended the stage
    dInIdx,     \* position in dDays of the element clicked for check-in
    dOutIdx,    \* position in dDays of the element clicked for check-out
    dCheckin,   \* checkin_date / checkin_label
    dCheckout,  \* checkout_date / checkout_label
    dOk,        \* the stage reports a selected check-in and check-out
    dAdvMany,   \* next month was clicked on a view that offered two or more days
    \* ---- guest selection of both programs on one guest popup (SpecGuests)
    gProg,      \* whose guest selection runs: "stage" (Step04GuestPicker) or "journey"
    gPc,        \* "run", "done"
    gCap,       \* page: clicks each test-id stepper still accepts
    gAlt,       \* page: clicks the adults / children fallback locators accept
    gOpened,    \* _open_guest_picker returned True
    gAdded,     \* increment clicks that went through, per stepper
    gTotal,     \* the guest count the stage returns
    \* ---- Step05SearchResults._scrape_listings on one results page (SpecScrape)
    lPc,        \* "schema", "cards", "done"
    lSchema,    \* page: the schema.org ListItem elements, document order
    lCards,     \* page: the card-container elements, document order
    lListings,  \* `listings`
    lYield,     \* records the structured tier appended
    lCardRan,   \* the card tier was entered
    lCalls,     \* calls of _scrape_listings made on the page so far
    lPrev,      \* what the earlier calls returned, in order
    \* ---- AirbnbJourney.step_05_search_results on one results page (SpecListing)
    tPc,        \* "load", "items", "done", "raised"
    tTitles,    \* page: what reading each title element gives, document order
    tIdx,       \* idx of the enumerate loop, 0-based
    tRows,      \* SearchListing rows created, in creation order
    tData,      \* listings_data
    tSinkFails, \* SearchListing.objects.create calls that raised
    \* ---- the screenshot calls of one stage (SpecShot)
    hProg,      \* "stage" = a stage class's run, "journey" = an AirbnbJourney step
    hStage,     \* which of the six stages runs
    hPc,        \* "run", "done", "raised"
    hEnabled,   \* BrowserService.screenshots_enabled
    hPoint,     \* screenshot calls of the stage made so far
    hPaths,     \* what each screenshot call returned, in order
    hShotFails, \* page.screenshot calls that raised
    hShotRaised, \* an exception of page.screenshot left the stage
    hOk,        \* no interaction of the stage has failed so far
    hStatus,    \* the verdict: every recorded passed flag / _step_status
    \* ---- Step01LandingAndSearch._enter_destination_and_select (SpecEntry)
    ePc,        \* "preferred", "where", "second", "retype", "option0", "loop",
                \* "enter", "returned"
    eTyped,     \* times the destination was typed in full
    eField,     \* copies of the destination in the input being typed into
    eOptTries,  \* option clicks issued
    eClicked,   \* an option click went through
    eLoop,      \* passes of `for _ in range(3)` made
    eEnter,     \* keyboard.press("Enter") calls
    eReturn,    \* "none" until the function returns, then "True" or "False"
    \* ---- one stepper's increment loop, pass by pass (SpecStepper)
    kFn,        \* "codegen", "click_increment" or "journey"
    kPc,        \* "loop", "done"
    kCount,     \* increments requested: the range(...) of the loop
    kPass,      \* passes of the loop begun
    kDone,      \* increments counted (added / done / adults_added)
    kChecksOk,  \* visible-and-enabled checks that answered True
    kClicks,    \* click calls issued
    kLate,      \* passes begun after a pass that found the button not clickable
    \* ---- the date and guest verdicts of the Results stage (SpecVerify)
    vCheck,     \* "dates" or "guests": the verdict being computed
    vPc,        \* "run", "done"
    vInfo,      \* date_info: is a check-in / check-out value present
    vGuestCount, \* guest_count handed over by the guest stage
    vUrl,       \* current_url: what it carries
    vText,      \* the page text _check_dates_in_ui reads
    vInUrl,     \* dates_in_url
    vInUi,      \* dates_in_ui
    vPassed,    \* the recorded verdict
    \* ---- gallery image collection of the Detail stage (SpecGallery)
    iProg,      \* "stage" = _collect_gallery_images, "journey" = step_06_listing_detail
    iPc,        \* "gallery", "fallback", "done"
    iGallery,   \* page: src of each image under the gallery selectors, in order
    iAll,       \* page: src of each <img> of the page, in order
    iUrls,      \* image_urls
    iFallback,  \* the all-images fallback ran
    \* ---- opening the selected listing (SpecOpen)
    oProg,      \* "stage" = _open_listing, "journey" = step_06_listing_detail
    oPc,        \* "url", "links", "codegen", "card", "done"
    oSel,       \* the listing random.choice selected
    oUrlKind,   \* shape of the selected listing's listing_url
    oFirstLink, \* listing behind the first matching anchor of the page, 0 = none
    oDhaka,     \* listing behind the "Apartment in Dhaka" card, 0 = none
    oPage,      \* listing whose detail page is open, 0 = none
    oRaised,    \* an exception left the function
    \* ---- day clicks of the DatePicker stage (SpecClicks)
    qPc,        \* "available", "js", "role", "random", "done"
    qTries,     \* passes of _select_two_available_days made so far
    qLast,      \* what the last pass or fallback did
    qIn,        \* clicks that went through on a first (check-in) day element
    qOut,       \* clicks that went through on a second (check-out) day element
    qOk,        \* _select_random_two_dates returned (True, True)
    \* ---- Step03DatePicker.run and Step04GuestPicker.run around their picker (SpecPicker)
    pStage,     \* "dates" = Step03DatePicker.run, "guests" = Step04GuestPicker.run
    pPc,        \* "open", "act", "search", "done"
    pOpened,    \* what _open_date_picker / _open_guest_picker returned
    pOpeners,   \* clicks on the field or button that opens the picker
    pPicks,     \* clicks on day elements / on increment buttons
    pNext,      \* clicks on the next-month button
    pSearch,    \* clicks on the search button
    pResults,   \* test cases recorded by the stage, in order
    pReturn,    \* the value run returned, "none" until it returns
    \* ---- monitoring logs of run_airbnb_automation (SpecMonitor)
    mStep,      \* --step: 0 = all stages, k = stop after stage k
    mPc,        \* "stages" while stages run, "save" at _save_monitoring_logs, "done"
    mSaves,     \* calls of _save_monitoring_logs made so far
    mConsole,   \* BrowserService.console_logs
    mNetwork,   \* BrowserService.network_logs
    mEvents,    \* number of events the listeners have captured
    mHanded     \* entries handed to save_console_logs / save_network_logs, in order

varsResolve == <<rFn, rPc, rObs, rReturned>>
varsWait    == <<wFn, wPc, wStart, wNow, wProbe, wSeen, wResult, wSkipped>>
varsJourney == <<jStep, jStoreDb, jPc, jResults, jCountry, jSuggestionOk, jDates,
                 jGuests, jListings, jDetails, jAllFail, jSinkFailedAt>>

varsCommand == <<cPc, cIdx, cEntered, cAttempted, cTestCases, cOverall, cStatus,
                 cFinished, cNetBuf, cConBuf, cSaved, cEvents, cLostAt, cFatal, cMark>>

varsSuggestion == <<sPc, sCalls, sProbes, sSugg, sPre, sClicks, sKeys, sTyped,
                    sResults, sReturn, sPrev, sTier>>

varsDates == <<dPc, dDays, dTries, dPath, dInIdx, dOutIdx, dCheckin, dCheckout, dOk, dAdvMany>>

varsGuests == <<gProg, gPc, gCap, gAlt, gOpened, gAdded, gTotal>>

varsScrape == <<lPc, lSchema, lCards, lListings, lYield, lCardRan, lCalls, lPrev>>

varsListing == <<tPc, tTitles, tIdx, tRows, tData, tSinkFails>>
varsEntry == <<ePc, eTyped, eOptTries, eClicked, eLoop, eEnter, eReturn, eField>>
varsStepper == <<kFn, kPc, kCount, kPass, kDone, kChecksOk, kClicks, kLate>>
varsVerify == <<vCheck, vPc, vInfo, vGuestCount, vUrl, vText, vInUrl, vInUi, vPassed>>
varsMonitor == <<mStep, mPc, mSaves, mConsole, mNetwork, mEvents, mHanded>>
varsPicker == <<pStage, pPc, pOpened, pOpeners, pPicks, pNext, pSearch, pResults, pReturn>>
varsClicks == <<qPc, qTries, qLast, qIn, qOut, qOk>>
varsOpen == <<oProg, oPc, oSel, oUrlKind, oFirstLink, oDhaka, oPage, oRaised>>
varsGallery == <<iProg, iPc, iGallery, iAll, iUrls, iFallback>>
varsShot == <<hProg, hStage, hPc, hEnabled, hPoint, hPaths, hShotFails, hShotRaised, hOk, hStatus>>

vars == <<varsResolve,
          varsWait,
          varsJourney,
          varsCommand,
          varsSuggestion,
          varsDates,
          varsGuests,
          varsScrape,
          varsListing,
          varsShot,
          varsEntry,
          varsStepper,
          varsVerify,
          varsGallery,
          varsOpen,
          varsClicks,
          varsPicker,
          varsMonitor>>

\* What each component leaves alone.
notResolve ==
    <<varsWait, varsJourney, varsCommand, varsSuggestion,
      varsDates, varsGuests, varsScrape, varsListing,
      varsShot, varsEntry, varsStepper, varsVerify,
      varsGallery, varsOpen, varsClicks, varsPicker,
      varsMonitor>>
notWait ==
    <<varsResolve, varsJourney, varsCommand, varsSuggestion,
      varsDates, varsGuests, varsScrape, varsListing,
      varsShot, varsEntry, varsStepper, varsVerify,
      varsGallery, varsOpen, varsClicks, varsPicker,
      varsMonitor>>
notJourney ==
    <<varsResolve, varsWait, varsCommand, varsSuggestion,
      varsDates, varsGuests, varsScrape, varsListing,
      varsShot, varsEntry, varsStepper, varsVerify,
      varsGallery, varsOpen, varsClicks, varsPicker,
      varsMonitor>>
notCommand ==
    <<varsResolve, varsWait, varsJourney, varsSuggestion,
      varsDates, varsGuests, varsScrape, varsListing,
      varsShot, varsEntry, varsStepper, varsVerify,
      varsGallery, varsOpen, varsClicks, varsPicker,
      varsMonitor>>
notSuggestion ==
    <<varsResolve, varsWait, varsJourney, varsCommand,
      varsDates, varsGuests, varsScrape, varsListing,
      varsShot, varsEntry, varsStepper, varsVerify,
      varsGallery, varsOpen, varsClicks, varsPicker,
      varsMonitor>>
notDates ==
    <<varsResolve, varsWait, varsJourney, varsCommand,
      varsSuggestion, varsGuests, varsScrape, varsListing,
      varsShot, varsEntry, varsStepper, varsVerify,
      varsGallery, varsOpen, varsClicks, varsPicker,
      varsMonitor>>
notGuests ==
    <<varsResolve, varsWait, varsJourney, varsCommand,
      varsSuggestion, varsDates, varsScrape, varsListing,
      varsShot, varsEntry, varsStepper, varsVerify,
      varsGallery, varsOpen, varsClicks, varsPicker,
      varsMonitor>>
notScrape ==
    <<varsResolve, varsWait, varsJourney, varsCommand,
      varsSuggestion, varsDates, varsGuests, varsListing,
      varsShot, varsEntry, varsStepper, varsVerify,
      varsGallery, varsOpen, varsClicks, varsPicker,
      varsMonitor>>
notListing ==
    <<varsResolve, varsWait, varsJourney, varsCommand,
      varsSuggestion, varsDates, varsGuests, varsScrape,
      varsShot, varsEntry, varsStepper, varsVerify,
      varsGallery, varsOpen, varsClicks, varsPicker,
      varsMonitor>>
notShot ==
    <<varsResolve, varsWait, varsJourney, varsCommand,
      varsSuggestion, varsDates, varsGuests, varsScrape,
      varsListing, varsEntry, varsStepper, varsVerify,
      varsGallery, varsOpen, varsClicks, varsPicker,
      varsMonitor>>
notEntry ==
    <<varsResolve, varsWait, varsJourney, varsCommand,
      varsSuggestion, varsDates, varsGuests, varsScrape,
      varsListing, varsShot, varsStepper, varsVerify,
      varsGallery, varsOpen, varsClicks, varsPicker,
      varsMonitor>>
notStepper ==
    <<varsResolve, varsWait, varsJourney, varsCommand,
      varsSuggestion, varsDates, varsGuests, varsScrape,
      varsListing, varsShot, varsEntry, varsVerify,
      varsGallery, varsOpen, varsClicks, varsPicker,
      varsMonitor>>
notVerify ==
    <<varsResolve, varsWait, varsJourney, varsCommand,
      varsSuggestion, varsDates, varsGuests, varsScrape,
      varsListing, varsShot, varsEntry, varsStepper,
      varsGallery, varsOpen, varsClicks, varsPicker,
      varsMonitor>>
notGallery ==
    <<varsResolve, varsWait, varsJourney, varsCommand,
      varsSuggestion, varsDates, varsGuests, varsScrape,
      varsListing, varsShot, varsEntry, varsStepper,
      varsVerify, varsOpen, varsClicks, varsPicker,
      varsMonitor>>
notOpen ==
    <<varsResolve, varsWait, varsJourney, varsCommand,
      varsSuggestion, varsDates, varsGuests, varsScrape,
      varsListing, varsShot, varsEntry, varsStepper,
      varsVerify, varsGallery, varsClicks, varsPicker,
      varsMonitor>>
notClicks ==
    <<varsResolve, varsWait, varsJourney, varsCommand,
      varsSuggestion, varsDates, varsGuests, varsScrape,
      varsListing, varsShot, varsEntry, varsStepper,
      varsVerify, varsGallery, varsOpen, varsPicker,
      varsMonitor>>
notPicker ==
    <<varsResolve, varsWait, varsJourney, varsCommand,
      varsSuggestion, varsDates, varsGuests, varsScrape,
      varsListing, varsShot, varsEntry, varsStepper,
      varsVerify, varsGallery, varsOpen, varsClicks,
      varsMonitor>>
notMonitor ==
    <<varsResolve, varsWait, varsJourney, varsCommand,
      varsSuggestion, varsDates, varsGuests, varsScrape,
      varsListing, varsShot, varsEntry, varsStepper,
      varsVerify, varsGallery, varsOpen, varsClicks,
      varsPicker>>

(***************************************************************************)
(* Ordered locator-candidate lists                                         *)
(***************************************************************************)

\* The candidate loops of _click_search, _open_where_and_get_input and _open_guest_picker.
ResolveFns == {"click_search", "open_where_click", "open_where_input", "open_guest_picker"}

\* Length of each candidate list.
NumCandidates(fn) ==
    CASE fn = "click_search"      -> 3
      [] fn = "open_where_click"  -> 3
      [] fn = "open_where_input"  -> 3
      [] fn = "open_guest_picker" -> 5

\* _click_search tests is_visible() and is_enabled(); the others is_visible() only.
ChecksEnabled(fn) == fn = "click_search"

\* input_candidates are returned, never clicked.
ClicksCandidate(fn) == fn # "open_where_input"

\* Outcome of one Playwright call that can answer or raise.
CallOutcomes == {"yes", "no", "raise"}

\* The `if` of each loop body: the candidate is usable.
Matches(fn, vis, en) == vis = "yes" /\ (ChecksEnabled(fn) => en = "yes")

AfterMatch_NoReturn(fn, clickOk, controls) == "next"

\* What the loop body does with a candidate that matched:
\*   _click_search            click, return True       (raise -> continue)
\*   click_candidates         click, break             (raise -> continue)
\*   input_candidates         return inp.first
\*   _open_guest_picker       click, return True only if the stepper controls
\*                            are now visible, else fall through to the next
AfterMatch(fn, clickOk, controls) ==
    CASE fn = "open_where_input"  -> "return"
      [] fn = "open_guest_picker" -> IF clickOk /\ controls THEN "return" ELSE "next"
      [] OTHER                    -> IF clickOk THEN "return" ELSE "next"

InitResolve ==
    /\ rFn \in ResolveFns
    /\ rPc = "loop"
    /\ rObs = <<>>
    /\ rReturned = 0

IdleResolve ==
    /\ rFn = "click_search"
    /\ rPc = "idle"
    /\ rObs = <<>>
    /\ rReturned = 0

\* One iteration of `for c in candidates:`.
ConsultCandidate ==
    /\ rPc = "loop"
    /\ Len(rObs) < NumCandidates(rFn)
    /\ \E vis \in CallOutcomes, en \in CallOutcomes, clickOk \in BOOLEAN, controls \in BOOLEAN :
         LET matched == Matches(rFn, vis, en)
             clicked == matched /\ ClicksCandidate(rFn) /\ clickOk
             obs     == [matched  |-> matched,
                         clicked  |-> clicked,
                         raised   |-> matched /\ ClicksCandidate(rFn) /\ ~clickOk,
                         controls |-> clicked /\ controls]
             verdict == IF matched THEN AfterMatch(rFn, clickOk, controls) ELSE "next"
         IN  \* outcomes the code never looks at are fixed, to keep the draw canonical
             /\ (vis # "yes" \/ ~ChecksEnabled(rFn)) => en = "no"
             /\ (~matched \/ ~ClicksCandidate(rFn)) => clickOk = FALSE
             /\ (~clicked \/ rFn # "open_guest_picker") => controls = FALSE
             /\ rObs' = Append(rObs, obs)
             /\ IF verdict = "return"
                  THEN rPc' = "done" /\ rReturned' = Len(rObs) + 1
                  ELSE UNCHANGED <<rPc, rReturned>>
    /\ UNCHANGED <<rFn, notResolve>>

\* The list is exhausted: return False / None / the final controls probe.
CandidatesExhausted ==
    /\ rPc = "loop"
    /\ Len(rObs) = NumCandidates(rFn)
    /\ rPc' = "done"
    /\ UNCHANGED <<rFn, rObs, rReturned, notResolve>>

NextResolve == ConsultCandidate \/ CandidatesExhausted

(***************************************************************************)
(* Probe-polling waits                                                     *)
(***************************************************************************)

\* _wait_for_date_picker_auto_open, the last loop of _open_date_picker and
\* the last loop of _ensure_date_picker_open.
WaitFns == {"auto_open", "open_date_picker", "ensure_open"}

\* timeout_sec = 4.0, `< 4.0` and `< 1.5`, in ms.
AutoOpenTimeoutMs == 4000
OpenPickerTimeoutMs == 4000
EnsureOpenTimeoutMs == 1500
\* is_visible(timeout=400), is_visible(timeout=1500), is_visible(timeout=300)
AutoOpenProbeMs == 400
CalendarProbeMs == 1500
EnsureOpenProbeMs == 300
\* time.sleep(0.15), time.sleep(0.2) and time.sleep(0.12)
AutoOpenSleepMs == 150
OpenPickerSleepMs == 200
EnsureOpenSleepMs == 120
\* len(probes) of each function
AutoOpenProbes == 4
CalendarProbes == 5
EnsureOpenProbes == 4

WaitTimeout(fn) ==
    CASE fn = "auto_open" -> AutoOpenTimeoutMs
      [] fn = "open_date_picker" -> OpenPickerTimeoutMs
      [] OTHER -> EnsureOpenTimeoutMs
ProbeTimeout(fn) ==
    CASE fn = "auto_open" -> AutoOpenProbeMs
      [] fn = "open_date_picker" -> CalendarProbeMs
      [] OTHER -> EnsureOpenProbeMs
SleepMs(fn) ==
    CASE fn = "auto_open" -> AutoOpenSleepMs
      [] fn = "open_date_picker" -> OpenPickerSleepMs
      [] OTHER -> EnsureOpenSleepMs
NumProbes(fn) ==
    CASE fn = "auto_open" -> AutoOpenProbes
      [] fn = "open_date_picker" -> CalendarProbes
      [] OTHER -> EnsureOpenProbes

\* Where the `try` sits: around each is_visible call, or around the whole
\* `for sel in probes` loop, in which case an exception ends the round.
RaiseEndsRound(fn) == fn = "ensure_open"

\* The clock values a run may start at.
StartTimes == {0, 250}

LoopContinues_Budgeted(fn, start, now) == now - start + ProbeTimeout(fn) < WaitTimeout(fn)

\* while time.time() - start < timeout_sec
LoopContinues(fn, start, now) == now - start < WaitTimeout(fn)

InitWait ==
    /\ wFn \in WaitFns
    /\ wStart \in StartTimes
    /\ wNow = wStart
    /\ wPc = "guard"
    /\ wProbe = 1
    /\ wSeen = FALSE
    /\ wResult = FALSE
    /\ wSkipped = FALSE

IdleWait ==
    /\ wFn = "auto_open"
    /\ wStart = 0
    /\ wNow = 0
    /\ wPc = "idle"
    /\ wProbe = 1
    /\ wSeen = FALSE
    /\ wResult = FALSE
    /\ wSkipped = FALSE

\* The `while` test; when it fails the function falls to `return False`.
CheckDeadline ==
    /\ wPc = "guard"
    /\ IF LoopContinues(wFn, wStart, wNow)
         THEN wPc' = "probe" /\ wProbe' = 1 /\ UNCHANGED wResult
         ELSE wPc' = "done" /\ wResult' = FALSE /\ UNCHANGED wProbe
    /\ UNCHANGED <<wFn, wStart, wNow, wSeen, wSkipped, notWait>>

\* One is_visible() call of the round: it answers at once or uses its timeout;
\* "visible" returns True, anything else (an exception included) moves on.
ProbeCheck ==
    /\ wPc = "probe"
    /\ \E outcome \in CallOutcomes, took \in {0, ProbeTimeout(wFn)} :
         /\ wNow' = wNow + took
         /\ IF outcome = "yes"
              THEN /\ wPc' = "done" /\ wResult' = TRUE /\ wSeen' = TRUE
                   /\ UNCHANGED <<wProbe, wSkipped>>
              ELSE IF outcome = "raise" /\ RaiseEndsRound(wFn)
                THEN /\ wPc' = "sleep"
                     /\ wSkipped' = IF wProbe < NumProbes(wFn) THEN TRUE ELSE wSkipped
                     /\ UNCHANGED <<wProbe, wResult, wSeen>>
                ELSE /\ IF wProbe < NumProbes(wFn)
                          THEN wProbe' = wProbe + 1 /\ UNCHANGED wPc
                          ELSE wPc' = "sleep" /\ UNCHANGED wProbe
                     /\ UNCHANGED <<wResult, wSeen, wSkipped>>
    /\ UNCHANGED <<wFn, wStart, notWait>>

\* time.sleep(...) at the end of a round in which no probe was visible.
SleepRound ==
    /\ wPc = "sleep"
    /\ wNow' = wNow + SleepMs(wFn)
    /\ wPc' = "guard"
    /\ UNCHANGED <<wFn, wStart, wProbe, wSeen, wResult, wSkipped, notWait>>

NextWait == CheckDeadline \/ ProbeCheck \/ SleepRound

(***************************************************************************)
(* run_airbnb_automation: the six stage classes and their orchestrator     *)
(***************************************************************************)

\* Destinations the Landing stage may pick (a sample of TOP_20_COUNTRIES).
Destinations == {"Germany", "Tokyo Japan"}
NoValue == "None"
\* Largest guest total and listing count drawn for a run.
MaxGuests == 2
MaxListings == 2

\* One save_test_result call; stage 0 is the session itself.
TestResult(stage, test, passed) == [stage |-> stage, test |-> test, passed |-> passed]

\* Step01LandingAndSearch.run: the second result is recorded with passed=True
\* whatever _enter_destination_and_select returned.
Step01Results(urlHasAirbnb, clicked) ==
    << TestResult(1, "Homepage Load Verification", urlHasAirbnb),
       TestResult(1, "Search Field Input", TRUE) >>

\* Step02AutoSuggestion.run
Step02Results(dpVisible, sugVisible, clicked) ==
    IF dpVisible
      THEN << TestResult(2, "Auto-suggestion List Visibility", TRUE),
              TestResult(2, "Auto-suggestion Selection and Click", TRUE) >>
      ELSE IF ~sugVisible
        THEN << TestResult(2, "Auto-suggestion List Visibility", FALSE),
                TestResult(2, "Auto-suggestion Selection and Click", TRUE) >>
        ELSE << TestResult(2, "Auto-suggestion List Visibility", TRUE),
                TestResult(2, "Auto-suggestion Selection and Click", clicked) >>

Step02Return(dpVisible, sugVisible, clicked) ==
    IF dpVisible \/ ~sugVisible THEN TRUE ELSE clicked

\* Step03DatePicker.run
Step03Results(pickerOpen, datesOk) ==
    IF ~pickerOpen
      THEN << TestResult(3, "Date Picker Modal Open and Visibility Test", FALSE) >>
      ELSE << TestResult(3, "Date Picker Modal Open and Visibility Test", TRUE),
              TestResult(3, "Date Selection Validation", datesOk) >>

NoDates == [checkin |-> NoValue, checkout |-> NoValue]
\* A pair of labels stored by the stage (both attributes are set together).
SomeDates == [checkin |-> "2026-06-15", checkout |-> "2026-06-18"]

\* {'checkin': self.checkin_date, 'checkout': self.checkout_date}
Step03Return(pickerOpen, dates) == IF pickerOpen THEN dates ELSE NoDates

\* Step04GuestPicker.run
Step04Results(opened, total, displayed, searched) ==
    IF ~opened
      THEN << TestResult(4, "Guest Picker Open Verification", FALSE) >>
      ELSE << TestResult(4, "Guest Picker Open Verification", TRUE),
              TestResult(4, "Guest Count Display Verification", displayed > 0 \/ total > 0),
              TestResult(4, "Search Button Click After Guest Selection", searched) >>

Step04Return(opened, total) == IF opened THEN total ELSE 0

\* Step05SearchResults.run
Step05Results(pageLoaded, datesInUrl, datesInUi, guestsInUrl, n) ==
    << TestResult(5, "Search Results Page Load Verification", pageLoaded),
       TestResult(5, "Selected Dates in URL Validation", datesInUrl \/ datesInUi),
       TestResult(5, "Selected Guest Count in URL Validation", guestsInUrl),
       TestResult(5, "Selected Dates in Page UI Confirmation", datesInUi),
       TestResult(5, "Listing Data Scraping", n > 0) >>

\* Step06ListingDetails.run: with no listings it returns {} before any result.
Step06Results(n, pageOk, hasTitle, hasImages) ==
    IF n = 0
      THEN << >>
      ELSE << TestResult(6, "Listing Details Page Load", pageOk),
              TestResult(6, "Listing Title and Subtitle Capture", hasTitle),
              TestResult(6, "Listing Gallery Image URLs Collection", hasImages) >>

Step06Return(n) == n > 0

\* The `if step == k:` block after stage k: its 'Automation Session End'.
StepEnd(k, passed) == << TestResult(0, "Automation Session End", passed) >>

\* The summary block of a full run: `if store_db:` ... passed=True.
FinalSessionEnd(storeDb) ==
    IF storeDb THEN << TestResult(0, "Automation Session End", TRUE) >> ELSE << >>

InitJourney ==
    /\ jStep \in 0..6
    /\ jStoreDb \in BOOLEAN
    /\ jPc = "start"
    /\ jResults = << >>
    /\ jCountry = NoValue
    /\ jSuggestionOk = FALSE
    /\ jDates = NoDates
    /\ jGuests = 0
    /\ jListings = 0
    /\ jDetails = FALSE
    /\ jAllFail = TRUE
    /\ jSinkFailedAt = 0

IdleJourney ==
    /\ jStep = 0
    /\ jStoreDb = FALSE
    /\ jPc = "idle"
    /\ jResults = << >>
    /\ jCountry = NoValue
    /\ jSuggestionOk = FALSE
    /\ jDates = NoDates
    /\ jGuests = 0
    /\ jListings = 0
    /\ jDetails = FALSE
    /\ jAllFail = TRUE
    /\ jSinkFailedAt = 0

SelectedCountry_Overwritten(k, current, picked) == picked

\* `selected_country` is assigned from step01.run() and only read afterwards.
SelectedCountry(k, current, picked) == IF k = 1 THEN picked ELSE current

\* The stages in their order in _run_journey, then its summary block.
StagePc == << "step01", "step02", "step03", "step04", "step05", "step06", "final" >>

\* Position of a control point of _run_journey: the stage it is about to run,
\* 0 before the first, 7 for the summary block, 8 once the run is over.
StageIdx(pc) ==
    CASE pc = "start" -> 0
      [] pc = "final" -> 7
      [] pc \in {"done", "raising", "raised", "idle"} -> 8
      [] OTHER -> CHOOSE k \in 1..6 : StagePc[k] = pc

AfterStage_IgnoresStep(k, passed) == [pc |-> StagePc[k + 1], end |-> << >>]

\* Where _run_journey goes after stage k, and what it records on the way.
AfterStage(k, passed) ==
    IF jStep = k THEN [pc |-> "done", end |-> StepEnd(k, passed)]
    ELSE [pc |-> StagePc[k + 1], end |-> << >>]

\* Command.handle up to the call of _run_journey.
HandleStart ==
    /\ jPc = "start"
    /\ jResults' = IF jStoreDb
                     THEN << TestResult(0, "Automation Session Start", TRUE) >>
                     ELSE << >>
    /\ jPc' = "step01"
    /\ UNCHANGED <<jStep, jStoreDb, jCountry, jSuggestionOk, jDates, jGuests,
                   jListings, jDetails, jAllFail, jSinkFailedAt, notJourney>>

\* Stage 1.  wait_for_load_state may time out; the wait_for_selector that
\* follows is outside any try and raises when the query field never shows.
RunStep01 ==
    /\ jPc = "step01"
    /\ \E loadOk \in BOOLEAN, queryFound \in BOOLEAN, urlHasAirbnb \in BOOLEAN,
          clicked \in BOOLEAN, country \in Destinations :
         /\ loadOk => ~queryFound          \* not consulted
         /\ jAllFail' = (jAllFail /\ ~queryFound /\ ~clicked)
         /\ IF ~loadOk /\ ~queryFound
              THEN /\ jPc' = "raising"
                   /\ UNCHANGED <<jResults, jCountry>>
              ELSE LET after == AfterStage(1, TRUE)
                   IN /\ jResults' = jResults \o Step01Results(urlHasAirbnb, clicked) \o after.end
                      /\ jCountry' = SelectedCountry(1, jCountry, country)
                      /\ jPc' = after.pc
    /\ UNCHANGED <<jStep, jStoreDb, jSuggestionOk, jDates, jGuests, jListings,
                   jDetails, jSinkFailedAt, notJourney>>

\* Stage 2.
RunStep02 ==
    /\ jPc = "step02"
    /\ jCountry' = SelectedCountry(2, jCountry, NoValue)
    /\ \E dpVisible \in BOOLEAN, sugVisible \in BOOLEAN, clicked \in BOOLEAN :
         /\ dpVisible => ~sugVisible       \* not consulted
         /\ ~sugVisible => ~clicked        \* not consulted
         /\ LET ok    == Step02Return(dpVisible, sugVisible, clicked)
                after == AfterStage(2, ok)
            IN /\ jSuggestionOk' = ok
               /\ jResults' = jResults \o Step02Results(dpVisible, sugVisible, clicked) \o after.end
               /\ jPc' = after.pc
         /\ jAllFail' = (jAllFail /\ ~dpVisible /\ ~sugVisible)
    /\ UNCHANGED <<jStep, jStoreDb, jDates, jGuests, jListings,
                   jDetails, jSinkFailedAt, notJourney>>

\* Stage 3.  The last fallback of _select_random_two_dates stores the two
\* labels before it clicks, so a failed selection can still return them.
RunStep03 ==
    /\ jPc = "step03"
    /\ jCountry' = SelectedCountry(3, jCountry, NoValue)
    /\ \E pickerOpen \in BOOLEAN, datesOk \in BOOLEAN,
          dates \in {NoDates, SomeDates} :
         /\ ~pickerOpen => (~datesOk /\ dates = NoDates)
         /\ datesOk => dates # NoDates
         /\ LET ret   == Step03Return(pickerOpen, dates)
                after == AfterStage(3, ret.checkin # NoValue /\ ret.checkout # NoValue)
            IN /\ jDates' = ret
               /\ jResults' = jResults \o Step03Results(pickerOpen, datesOk) \o after.end
               /\ jPc' = after.pc
         /\ jAllFail' = (jAllFail /\ ~pickerOpen)
    /\ UNCHANGED <<jStep, jStoreDb, jSuggestionOk, jGuests, jListings,
                   jDetails, jSinkFailedAt, notJourney>>

\* Stage 4.
RunStep04 ==
    /\ jPc = "step04"
    /\ jCountry' = SelectedCountry(4, jCountry, NoValue)
    /\ \E opened \in BOOLEAN, total \in 0..MaxGuests, displayed \in 0..1, searched \in BOOLEAN :
         /\ ~opened => (total = 0 /\ displayed = 0 /\ ~searched)
         /\ total > 0 => displayed = 0    \* makes no difference to the result
         /\ LET ret   == Step04Return(opened, total)
                after == AfterStage(4, ret > 0)
            IN /\ jGuests' = ret
               /\ jResults' = jResults \o Step04Results(opened, total, displayed, searched) \o after.end
               /\ jPc' = after.pc
         /\ jAllFail' = (jAllFail /\ ~opened)
    /\ UNCHANGED <<jStep, jStoreDb, jSuggestionOk, jDates, jListings,
                   jDetails, jSinkFailedAt, notJourney>>

\* Stage 5.  Both date checks return False at once when a date is missing.
RunStep05 ==
    /\ jPc = "step05"
    /\ jCountry' = SelectedCountry(5, jCountry, NoValue)
    /\ \E pageLoaded \in BOOLEAN, datesInUrl \in BOOLEAN, datesInUi \in BOOLEAN,
          guestsInUrl \in BOOLEAN, n \in 0..MaxListings :
         /\ (jDates.checkin = NoValue \/ jDates.checkout = NoValue) => (~datesInUrl /\ ~datesInUi)
         /\ LET after == AfterStage(5, n > 0)
            IN /\ jListings' = n
               /\ jResults' = jResults
                                \o Step05Results(pageLoaded, datesInUrl, datesInUi, guestsInUrl, n)
                                \o after.end
               /\ jPc' = after.pc
         /\ jAllFail' = (jAllFail /\ ~pageLoaded /\ ~datesInUi /\ n = 0)
    /\ UNCHANGED <<jStep, jStoreDb, jSuggestionOk, jDates, jGuests,
                   jDetails, jSinkFailedAt, notJourney>>

\* Stage 6.
RunStep06 ==
    /\ jPc = "step06"
    /\ jCountry' = SelectedCountry(6, jCountry, NoValue)
    /\ \E pageOk \in BOOLEAN, hasTitle \in BOOLEAN, hasImages \in BOOLEAN :
         /\ jListings = 0 => (~pageOk /\ ~hasTitle /\ ~hasImages)
         /\ LET ret   == Step06Return(jListings)
                after == AfterStage(6, ret)
            IN /\ jDetails' = ret
               /\ jResults' = jResults \o Step06Results(jListings, pageOk, hasTitle, hasImages) \o after.end
               /\ jPc' = after.pc
         /\ jAllFail' = (jAllFail /\ ~pageOk /\ ~hasTitle /\ ~hasImages)
    /\ UNCHANGED <<jStep, jStoreDb, jSuggestionOk, jDates, jGuests,
                   jListings, jSinkFailedAt, notJourney>>

\* The summary block that ends a full run.
FinishJourney ==
    /\ jPc = "final"
    /\ jResults' = jResults \o FinalSessionEnd(jStoreDb)
    /\ jPc' = "done"
    /\ UNCHANGED <<jStep, jStoreDb, jCountry, jSuggestionOk, jDates, jGuests,
                   jListings, jDetails, jAllFail, jSinkFailedAt, notJourney>>

\* Command.handle's `except Exception`: record the failed session, re-raise.
HandleException ==
    /\ jPc = "raising"
    /\ jResults' = IF jStoreDb
                     THEN Append(jResults, TestResult(0, "Automation Session End", FALSE))
                     ELSE jResults
    /\ jPc' = "raised"
    /\ UNCHANGED <<jStep, jStoreDb, jCountry, jSuggestionOk, jDates, jGuests,
                   jListings, jDetails, jAllFail, jSinkFailedAt, notJourney>>

\* DatabaseService.save_test_result, save_suggestions and save_listings call the
\* ORM without a handler: when one of them raises inside stage k the exception
\* leaves the stage and _run_journey.
StageSinkFailure ==
    /\ jStoreDb
    /\ StageIdx(jPc) \in 1..6
    /\ jSinkFailedAt' = StageIdx(jPc)
    /\ jPc' = "raising"
    /\ UNCHANGED <<jStep, jStoreDb, jResults, jCountry, jSuggestionOk, jDates, jGuests,
                   jListings, jDetails, jAllFail, notJourney>>

NextJourney ==
    \/ HandleStart \/ RunStep01 \/ RunStep02 \/ RunStep03 \/ RunStep04
    \/ RunStep05 \/ RunStep06 \/ FinishJourney \/ HandleException
    \/ StageSinkFailure

(***************************************************************************)
(* run_airbnb_journey: Command.handle, StepLogger and BrowserManager       *)
(***************************************************************************)

\* len(steps)
NumSteps == 6
\* Events the page's listeners capture during one run.
MaxEvents == 2

EndStepRecords_BodyOnly(number, raised) ==
    IF raised THEN << >> ELSE << [step_number |-> number, status |-> "passed"] >>

\* _StepContext.__exit__ calls _end_step(exc_val) on both ways out of the
\* `with` body; the row is failed exactly when an exception came out of it
\* (no step of AirbnbJourney calls logger.error).
EndStepRecords(number, raised) ==
    << [step_number |-> number, status |-> IF raised THEN "failed" ELSE "passed"] >>

StepRaiseGoesTo_Reraise == "finally"

\* `except Exception as exc:` inside the loop: the loop goes on to the drains.
StepRaiseGoesTo == "drain"

FinalStatus_StepsOnly(overall) == IF cFatal THEN "passed" ELSE IF overall THEN "passed" ELSE "failed"

\* test_run.status = "passed" if overall_passed else "failed"
FinalStatus(overall) == IF overall THEN "passed" ELSE "failed"

InitCommand ==
    /\ cPc = "enter"
    /\ cIdx = 1
    /\ cEntered = FALSE
    /\ cAttempted = << >>
    /\ cTestCases = << >>
    /\ cOverall = TRUE
    /\ cStatus = "running"
    /\ cFinished = FALSE
    /\ cNetBuf = << >>
    /\ cConBuf = << >>
    /\ cSaved = << >>
    /\ cEvents = 0
    /\ cLostAt = 0
    /\ cFatal = FALSE
    /\ cMark = 0

IdleCommand ==
    /\ cPc = "idle"
    /\ cIdx = 1
    /\ cEntered = FALSE
    /\ cAttempted = << >>
    /\ cTestCases = << >>
    /\ cOverall = TRUE
    /\ cStatus = "running"
    /\ cFinished = FALSE
    /\ cNetBuf = << >>
    /\ cConBuf = << >>
    /\ cSaved = << >>
    /\ cEvents = 0
    /\ cLostAt = 0
    /\ cFatal = FALSE
    /\ cMark = 0

\* `with BrowserManager(mobile=mobile) as bm:`; a failed launch is the outer
\* `except Exception as fatal`.
EnterBrowser ==
    /\ cPc = "enter"
    /\ \E launched \in BOOLEAN :
         IF launched
           THEN cEntered' = TRUE /\ cPc' = "step" /\ UNCHANGED <<cOverall, cFatal>>
           ELSE cEntered' = FALSE /\ cPc' = "finally" /\ cOverall' = FALSE /\ cFatal' = TRUE
    /\ UNCHANGED <<cIdx, cAttempted, cTestCases, cStatus, cFinished, cNetBuf,
                   cConBuf, cSaved, cEvents, cLostAt, cMark, notCommand>>

\* _on_response / _on_console: the sync API delivers them inside a Playwright
\* call, that is while a step runs or while __exit__ closes the context; the
\* drain loops make no Playwright call.
OnPageEvent ==
    /\ cPc \in {"step", "exit"}
    /\ cEvents < MaxEvents
    /\ cEvents' = cEvents + 1
    /\ \E kind \in {"network", "console"} :
         IF kind = "network"
           THEN cNetBuf' = Append(cNetBuf, cEvents + 1) /\ UNCHANGED cConBuf
           ELSE cConBuf' = Append(cConBuf, cEvents + 1) /\ UNCHANGED cNetBuf
    /\ UNCHANGED <<cPc, cIdx, cEntered, cAttempted, cTestCases, cOverall, cStatus,
                   cFinished, cSaved, cLostAt, cFatal, cMark, notCommand>>

\* step_fn(): _begin_step, the body, _end_step, and the handler around it.
\* A step raises on a failed assertion or because the browser session is
\* gone; once it is gone every later step raises as well.
CallStep ==
    /\ cPc = "step"
    /\ \E raised \in BOOLEAN, lost \in BOOLEAN :
         /\ lost => (raised /\ cLostAt = 0)
         /\ cLostAt > 0 => raised
         /\ cLostAt' = IF lost THEN cIdx ELSE cLostAt
         /\ cAttempted' = Append(cAttempted, cIdx)
         /\ cTestCases' = cTestCases \o EndStepRecords(cIdx, raised)
         /\ cOverall' = (cOverall /\ ~raised)
         /\ cPc' = IF raised THEN StepRaiseGoesTo ELSE "drain"
    /\ UNCHANGED <<cIdx, cEntered, cStatus, cFinished, cNetBuf, cConBuf, cSaved,
                   cEvents, cFatal, cMark, notCommand>>

DrainedBuffer_Kept(buf) == buf

\* `logs, self._network_logs = self._network_logs, []`: what the attribute
\* holds after the swap.
DrainedBuffer(buf) == << >>

\* The two drain loops after a step, then the next step_fn or the end of `with`.
DrainLogs ==
    /\ cPc = "drain"
    /\ cSaved' = cSaved \o cNetBuf \o cConBuf
    /\ cNetBuf' = DrainedBuffer(cNetBuf)
    /\ cConBuf' = DrainedBuffer(cConBuf)
    /\ cMark' = cEvents
    /\ IF cIdx < NumSteps
         THEN cIdx' = cIdx + 1 /\ cPc' = "step"
         ELSE cPc' = "exit" /\ UNCHANGED cIdx
    /\ UNCHANGED <<cEntered, cAttempted, cTestCases, cOverall, cStatus, cFinished,
                   cEvents, cLostAt, cFatal, notCommand>>

\* BrowserManager.__exit__: closing the context or the browser may raise.
ExitBrowser ==
    /\ cPc = "exit"
    /\ \E closed \in BOOLEAN :
         /\ cOverall' = (cOverall /\ closed)
         /\ cFatal' = ~closed
    /\ cPc' = "finally"
    /\ UNCHANGED <<cIdx, cEntered, cAttempted, cTestCases, cStatus, cFinished,
                   cNetBuf, cConBuf, cSaved, cEvents, cLostAt, cMark, notCommand>>

\* The `finally:` block.
FinishRun ==
    /\ cPc = "finally"
    /\ cStatus' = FinalStatus(cOverall)
    /\ cFinished' = TRUE
    /\ cPc' = "done"
    /\ UNCHANGED <<cIdx, cEntered, cAttempted, cTestCases, cOverall, cNetBuf,
                   cConBuf, cSaved, cEvents, cLostAt, cFatal, cMark, notCommand>>

NextCommand ==
    EnterBrowser \/ OnPageEvent \/ CallStep \/ DrainLogs \/ ExitBrowser \/ FinishRun

(***************************************************************************)
(* Step02AutoSuggestion.run and the page it drives                         *)
(***************************************************************************)

\* len(probes) in _date_picker_visible
DatePickerProbes == 4
\* is_visible on a probe: True, False, or an exception
ProbeStates == {"vis", "hid", "err"}
\* the suggestion rows: count() == 0, first row hidden, first row visible,
\* is_visible raising
SuggStates == {"none", "hidden", "visible", "err"}
\* Calls of run on one page.
MaxRuns == 2
\* Click calls one helper issues before it gives up or succeeds.
MaxClickTries == 2

\* _date_picker_visible: the first probe that is visible decides; a probe
\* that raises is skipped.
DatePickerVisible(probes) == \E i \in 1..DatePickerProbes : probes[i] = "vis"

\* _wait_for_suggestions
WaitForSuggestions(sugg) == sugg = "visible"

Step02Path_NoEarlyReturn(dpVisible, sugVisible) ==
    IF sugVisible THEN "click" ELSE "accept"

\* The branches of run: the early return, the accepted Step 01 selection, and
\* the click on the top suggestion.
Step02Path(dpVisible, sugVisible) ==
    IF dpVisible THEN "noop"
    ELSE IF sugVisible THEN "click" ELSE "accept"

\* What a landed click or key press can do to the page: nothing, close the
\* suggestion list, or open the calendar under one of the probes.
PageAfter(probes, sugg) ==
    {<<probes, sugg>>, <<probes, "none">>}
      \cup {<<[probes EXCEPT ![i] = "vis"], "none">> : i \in 1..DatePickerProbes}

\* The tiers of _click_top_suggestion in the order the code tries them.
ClickTiers == <<"option-0", "direct selectors", "candidate rows", "bounding box">>

\* The tier that returns True, given the tiers whose click would go through:
\* the first of them, 0 when there is none.
FirstTier(works) ==
    IF works = {} THEN 0 ELSE CHOOSE t \in works : \A u \in works : t <= u

RunOutcome(pre, clicks, keys, typed, results, ret) ==
    [pre |-> pre, clicks |-> clicks, keys |-> keys, typed |-> typed,
     results |-> results, ret |-> ret]

InitSuggestion ==
    /\ sPc = "begin"
    /\ sCalls = 0
    /\ sProbes \in [1..DatePickerProbes -> ProbeStates]
    /\ sSugg \in SuggStates
    /\ sPre = FALSE
    /\ sClicks = 0
    /\ sKeys = 0
    /\ sTyped = 0
    /\ sResults = << >>
    /\ sReturn = FALSE
    /\ sPrev = << >>
    /\ sTier = 0

IdleSuggestion ==
    /\ sPc = "idle"
    /\ sCalls = 0
    /\ sProbes = [i \in 1..DatePickerProbes |-> "hid"]
    /\ sSugg = "none"
    /\ sPre = FALSE
    /\ sClicks = 0
    /\ sKeys = 0
    /\ sTyped = 0
    /\ sResults = << >>
    /\ sReturn = FALSE
    /\ sPrev = << >>
    /\ sTier = 0

\* run, from its entry to the return of the two branches that do not click,
\* or up to the call of _click_top_suggestion.
Step02Begin ==
    /\ sPc \in {"begin", "returned"}
    /\ sCalls < MaxRuns
    /\ sCalls' = sCalls + 1
    /\ sPrev' = IF sPc = "returned"
                  THEN Append(sPrev, RunOutcome(sPre, sClicks, sKeys, sTyped,
                                                sResults, sReturn))
                  ELSE sPrev
    /\ LET dp   == DatePickerVisible(sProbes)
           sv   == WaitForSuggestions(sSugg)
           path == Step02Path(dp, sv)
       IN  /\ sPre' = dp
           /\ sClicks' = 0 /\ sKeys' = 0 /\ sTyped' = 0 /\ sTier' = 0
           /\ IF path = "click"
                THEN sPc' = "click" /\ sResults' = << >> /\ sReturn' = FALSE
                ELSE /\ sPc' = "returned"
                     /\ sResults' = Step02Results(path = "noop", sv, FALSE)
                     /\ sReturn' = Step02Return(path = "noop", sv, FALSE)
    /\ UNCHANGED <<sProbes, sSugg, notSuggestion>>

\* _click_top_suggestion and what follows it when the click failed or the
\* calendar is up.
Step02ClickTop ==
    /\ sPc = "click"
    /\ \E tries \in 0..MaxClickTries, works \in SUBSET (1..Len(ClickTiers)) :
       LET landed == FirstTier(works) # 0
       IN
         /\ landed => tries >= 1
         /\ sClicks' = sClicks + tries
         /\ sTier' = FirstTier(works)
         /\ \E page \in PageAfter(sProbes, sSugg) :
              /\ ~landed => page = <<sProbes, sSugg>>
              /\ sProbes' = page[1]
              /\ sSugg' = page[2]
         /\ IF landed /\ ~DatePickerVisible(sProbes')
              THEN sPc' = "ensure" /\ UNCHANGED <<sResults, sReturn>>
              ELSE /\ sPc' = "returned"
                   /\ sResults' = Step02Results(FALSE, TRUE, landed)
                   /\ sReturn' = Step02Return(FALSE, TRUE, landed)
    /\ UNCHANGED <<sCalls, sPre, sKeys, sTyped, sPrev, notSuggestion>>

\* _ensure_date_picker_open after a landed click, then the last result.
Step02EnsureOpen ==
    /\ sPc = "ensure"
    /\ \E tries \in 0..MaxClickTries, byOpener \in BOOLEAN :
         /\ byOpener => tries >= 1
         /\ sClicks' = sClicks + tries
         /\ sKeys' = IF byOpener THEN sKeys ELSE sKeys + 1
         /\ \E page \in PageAfter(sProbes, sSugg) :
              /\ byOpener => DatePickerVisible(page[1])
              /\ sProbes' = page[1]
              /\ sSugg' = page[2]
    /\ sPc' = "returned"
    /\ sResults' = Step02Results(FALSE, TRUE, TRUE)
    /\ sReturn' = Step02Return(FALSE, TRUE, TRUE)
    /\ UNCHANGED <<sCalls, sPre, sTyped, sPrev, sTier, notSuggestion>>

NextSuggestion == Step02Begin \/ Step02ClickTop \/ Step02EnsureOpen

(***************************************************************************)
(* Date selection: Step03DatePicker and AirbnbJourney.step_03_date_picker  *)
(***************************************************************************)

\* Day elements one calendar view offers.
MaxDays == 3
\* Distinct dates on a calendar view, numbered 1..NumDates in calendar order.
NumDates == 2
\* checkin_date = None
NoLabel == -1
\* A day element whose attribute, aria-label and text are all empty.
EmptyLabel == 0
\* exact_labels[0] and exact_labels[1]
ExactIn == 1
ExactOut == 2
\* range(3) in _select_random_two_dates and in _select_two_available_days
AvailableRounds == 3
AvailableTries == 3

Min2(a, b) == IF a < b THEN a ELSE b
Max2(a, b) == IF a > b THEN a ELSE b

\* The k-th position of S in document order, k = 1 for the first.
NthOf(S, k) == CHOOSE x \in S : Cardinality({y \in S : y < x}) = k - 1

\* A calendar lists its days in date order; one date can be rendered by more
\* than one element, and an element can come without a label.
Chronological(days) ==
    \A i \in 1..Len(days) : \A j \in i..Len(days) :
        (days[i] # EmptyLabel /\ days[j] # EmptyLabel) => days[i] <= days[j]

Calendars ==
    UNION { {days \in [1..n -> 0..NumDates] : Chronological(days)} : n \in 0..MaxDays }

Labelled(days) == {p \in 1..Len(days) : days[p] # EmptyLabel}

\* start_idx and end_idx of _select_two_available_days, 0-based as in the source
StartIdx(total) == IF total > 2 THEN Min2(2, total - 2) ELSE 0
EndIdx(total) == Min2(StartIdx(total) + 2, total - 1)

\* Indices of _select_two_days_via_js among its candidates, 0-based
JsFirst(n) == Min2(2, n - 2)
JsSecond(n) == Min2(4, n - 1)

\* Indices of AirbnbJourney.step_03_date_picker, 0-based
JourneyCheckin(n) == Min2(2, n - 1)
JourneyCheckout(n) == IF n > 5 THEN Min2(6, n - 1) ELSE n - 1

\* What the second query for available days can return after the check-in
\* click at position p: the same elements, or the page has dropped the selected
\* element, the earlier days, or both.
Requery(days, p) ==
    { 1..Len(days), (1..Len(days)) \ {p},
      {q \in 1..Len(days) : q >= p}, {q \in 1..Len(days) : q > p} }

InitDates ==
    /\ dPc \in {"available", "journey"}
    /\ dDays \in Calendars
    /\ dTries = 0
    /\ dPath = "none"
    /\ dInIdx = 0
    /\ dOutIdx = 0
    /\ dCheckin = NoLabel
    /\ dCheckout = NoLabel
    /\ dOk = FALSE
    /\ dAdvMany = FALSE

\* A calendar view with ten enabled day elements, each labelled with its own
\* date, in document order.
TenDayCalendar == [i \in 1..10 |-> i]

\* Either program arriving at date selection on that view.
InitTenDays ==
    /\ dPc \in {"available", "journey"}
    /\ dDays = TenDayCalendar
    /\ dTries = 0
    /\ dPath = "none"
    /\ dInIdx = 0
    /\ dOutIdx = 0
    /\ dCheckin = NoLabel
    /\ dCheckout = NoLabel
    /\ dOk = FALSE
    /\ dAdvMany = FALSE

IdleDates ==
    /\ dPc = "idle"
    /\ dDays = << >>
    /\ dTries = 0
    /\ dPath = "none"
    /\ dInIdx = 0
    /\ dOutIdx = 0
    /\ dCheckin = NoLabel
    /\ dCheckout = NoLabel
    /\ dOk = FALSE
    /\ dAdvMany = FALSE

AttemptsLeft_OneMore(tries) == tries < AvailableRounds * AvailableTries

\* The three calls of _select_two_available_days with three passes each:
\* is a pass left after `tries` passes and the one that has just failed?
AttemptsLeft(tries) == tries + 1 < AvailableRounds * AvailableTries

\* Both clicks done and the labels stored: the stage reports a selection.
DatesSelected(path, inIdx, outIdx) ==
    /\ dPath' = path
    /\ dInIdx' = inIdx
    /\ dOutIdx' = outIdx
    /\ dCheckin' = dDays'[inIdx]
    /\ dCheckout' = dDays'[outIdx]
    /\ dOk' = TRUE
    /\ dPc' = "done"

\* The stage ends without a selection.
DatesFailed(path) ==
    /\ dPath' = path
    /\ dOk' = FALSE
    /\ dPc' = "done"

\* One iteration of the loop of _select_two_available_days; every iteration
\* that does not return clicks "next month", after which any view can show.
SelectTwoAvailableDays ==
    /\ dPc = "available"
    /\ LET total   == Len(dDays)
           inIdx   == StartIdx(total) + 1
           outIdx  == EndIdx(total) + 1
           usable  == IF total < 2 THEN FALSE
                      ELSE /\ dDays[inIdx] # EmptyLabel
                           /\ dDays[outIdx] # EmptyLabel
                           /\ dDays[inIdx] # dDays[outIdx]
       IN  \E clicked \in BOOLEAN :
             IF usable /\ clicked
               THEN /\ dDays' = dDays
                    /\ DatesSelected("available", inIdx, outIdx)
                    /\ UNCHANGED <<dTries, dAdvMany>>
               ELSE /\ clicked => usable
                    /\ dDays' \in Calendars
                    /\ dTries' = dTries + 1
                    /\ dAdvMany' = IF total >= 2 THEN TRUE ELSE dAdvMany
                    /\ dPc' = IF AttemptsLeft(dTries) THEN "available" ELSE "js"
                    /\ UNCHANGED <<dPath, dInIdx, dOutIdx, dCheckin, dCheckout, dOk>>
    /\ UNCHANGED notDates

\* _select_two_days_via_js
SelectTwoDaysViaJs ==
    /\ dPc = "js"
    /\ LET cand == Labelled(dDays)
           n    == Cardinality(cand)
       IN  \E evaluated \in BOOLEAN :
             IF n >= 2 /\ evaluated
               THEN /\ dDays' = dDays
                    /\ DatesSelected("js", NthOf(cand, JsFirst(n) + 1),
                                     NthOf(cand, JsSecond(n) + 1))
               ELSE /\ evaluated => n >= 2
                    /\ dPc' = "role"
                    /\ UNCHANGED <<dDays, dPath, dInIdx, dOutIdx, dCheckin, dCheckout, dOk>>
    /\ UNCHANGED <<dTries, dAdvMany, notDates>>

\* _select_by_role_date_buttons: the "Move forward" clicks, the two exact
\* labels, then the first two day buttons whose click goes through.
SelectByRoleDateButtons ==
    /\ dPc = "role"
    /\ dDays' \in Calendars
    /\ dAdvMany' = IF Len(dDays) >= 2 /\ dDays' # dDays THEN TRUE ELSE dAdvMany
    /\ \E exact \in BOOLEAN, clickable \in SUBSET Labelled(dDays') :
         LET ins  == {p \in Labelled(dDays') : dDays'[p] = ExactIn}
             outs == {p \in Labelled(dDays') : dDays'[p] = ExactOut}
         IN  IF exact
               THEN /\ ins # {} /\ outs # {} /\ clickable = {}
                    /\ DatesSelected("role", NthOf(ins, 1), NthOf(outs, 1))
               ELSE IF Cardinality(clickable) >= 2
                 THEN DatesSelected("role", NthOf(clickable, 1), NthOf(clickable, 2))
                 ELSE /\ dPc' = "random"
                      /\ UNCHANGED <<dPath, dInIdx, dOutIdx, dCheckin, dCheckout, dOk>>
    /\ UNCHANGED <<dTries, notDates>>

\* The last fallback of _select_random_two_dates: two of the de-duplicated
\* date strings; the attributes are assigned before the clicks.
SelectRandomFallback ==
    /\ dPc = "random"
    /\ LET values == {dDays[p] : p \in Labelled(dDays)}
           n      == Cardinality(values)
           pos(v) == NthOf({p \in Labelled(dDays) : dDays[p] = v}, 1)
       IN  IF n < 2
             THEN /\ DatesFailed("random")
                  /\ UNCHANGED <<dInIdx, dOutIdx, dCheckin, dCheckout>>
             ELSE \E idx1 \in 0..Min2(Max2(0, n - 2), 10), clicked \in BOOLEAN :
                    \E gap \in 1..Max2(Min2(7, n - idx1 - 1), 1) :
                      LET idx2 == Min2(idx1 + gap, n - 1)
                      IN  /\ dCheckin' = NthOf(values, idx1 + 1)
                          /\ dCheckout' = NthOf(values, idx2 + 1)
                          /\ dInIdx' = pos(NthOf(values, idx1 + 1))
                          /\ dOutIdx' = pos(NthOf(values, idx2 + 1))
                          /\ dPath' = "random"
                          /\ dOk' = clicked
                          /\ dPc' = "done"
    /\ UNCHANGED <<dDays, dTries, dAdvMany, notDates>>

\* AirbnbJourney.step_03_date_picker from the query for available days on.
JourneySelectDates ==
    /\ dPc = "journey"
    /\ LET n     == Len(dDays)
           inIdx == JourneyCheckin(n) + 1
       IN  IF n = 0
             THEN /\ DatesFailed("journey")
                  /\ UNCHANGED <<dInIdx, dOutIdx, dCheckin, dCheckout>>
             ELSE \E days2 \in Requery(dDays, inIdx) :
                    LET m      == Cardinality(days2)
                        outIdx == NthOf(days2, JourneyCheckout(m) + 1)
                    IN  IF m = 0
                          THEN /\ DatesFailed("journey")
                               /\ dInIdx' = inIdx
                               /\ dCheckin' = dDays[inIdx]
                               /\ UNCHANGED <<dOutIdx, dCheckout>>
                          ELSE /\ dPath' = "journey"
                               /\ dInIdx' = inIdx
                               /\ dOutIdx' = outIdx
                               /\ dCheckin' = dDays[inIdx]
                               /\ dCheckout' = dDays[outIdx]
                               /\ dOk' = (dDays[inIdx] # EmptyLabel
                                            /\ dDays[outIdx] # EmptyLabel)
                               /\ dPc' = "done"
    /\ UNCHANGED <<dDays, dTries, dAdvMany, notDates>>

NextDates ==
    \/ SelectTwoAvailableDays \/ SelectTwoDaysViaJs \/ SelectByRoleDateButtons
    \/ SelectRandomFallback \/ JourneySelectDates

(***************************************************************************)
(* Guest selection: Step04GuestPicker and AirbnbJourney.step_04_guest_picker*)
(***************************************************************************)

\* Clicks a stepper accepts before it is hidden, disabled or its click raises.
MaxCap == 3

Steppers == {"adults", "children", "infants", "pets"}

\* `steps` of _apply_codegen_guest_clicks
CodegenCount(k) ==
    CASE k = "adults"   -> 3
      [] k = "children" -> 2
      [] k = "infants"  -> 1
      [] k = "pets"     -> 1

\* The inner loop of _apply_codegen_guest_clicks and _click_increment: click
\* until `count` is reached or the first click that does not go through.
ClickIncrement(cap, count) == Min2(cap, count)

NoneAdded == [k \in Steppers |-> 0]

\* _apply_codegen_guest_clicks: clicks per stepper
CodegenClicks(cap) == [k \in Steppers |-> ClickIncrement(cap[k], CodegenCount(k))]

SumAdded(added) ==
    added["adults"] + added["children"] + added["infants"] + added["pets"]

InitGuests ==
    /\ gProg \in {"stage", "journey"}
    /\ gPc = "run"
    /\ gCap \in [Steppers -> 0..MaxCap]
    /\ gAlt \in [{"adults", "children"} -> 0..MaxCap]
    /\ gProg = "journey" => gAlt = [k \in {"adults", "children"} |-> 0]
    /\ gOpened = FALSE
    /\ gAdded = NoneAdded
    /\ gTotal = 0

IdleGuests ==
    /\ gProg = "none"
    /\ gPc = "idle"
    /\ gCap = NoneAdded
    /\ gAlt = [k \in {"adults", "children"} |-> 0]
    /\ gOpened = FALSE
    /\ gAdded = NoneAdded
    /\ gTotal = 0

\* Step04GuestPicker.run up to `return self.total_selected`, with
\* _add_adults_children_randomly: the codegen clicks, and when they add
\* nothing the random targets with the one-adult retry.
GuestPickerRun ==
    /\ gProg = "stage"
    /\ gPc = "run"
    /\ \E opened \in BOOLEAN :
         /\ gOpened' = opened
         /\ IF ~opened
              THEN gAdded' = NoneAdded /\ gTotal' = 0
              ELSE LET det == CodegenClicks(gCap)
                   IN  IF SumAdded(det) > 0
                         THEN gAdded' = det /\ gTotal' = SumAdded(det)
                         ELSE \E adults \in 1..3, children \in 0..2, retried \in BOOLEAN :
                                LET first == ClickIncrement(gAlt["adults"], adults)
                                    again == IF first = 0 /\ retried THEN 1 ELSE 0
                                    kids  == ClickIncrement(gAlt["children"], children)
                                IN  /\ retried => first = 0
                                    /\ gAdded' = [NoneAdded EXCEPT !["adults"] = first + again,
                                                                   !["children"] = kids]
                                    /\ gTotal' = first + again + kids
    /\ gPc' = "done"
    /\ UNCHANGED <<gProg, gCap, gAlt, notGuests>>

\* AirbnbJourney.step_04_guest_picker: target_total - 1 adult clicks, and a
\* total that counts one adult as already there.
JourneyGuestPicker ==
    /\ gProg = "journey"
    /\ gPc = "run"
    /\ \E target \in 2..5 :
         LET added == ClickIncrement(gCap["adults"], target - 1)
         IN  /\ gAdded' = [NoneAdded EXCEPT !["adults"] = added]
             /\ gTotal' = 1 + added
    /\ gOpened' = TRUE
    /\ gPc' = "done"
    /\ UNCHANGED <<gProg, gCap, gAlt, notGuests>>

NextGuests == GuestPickerRun \/ JourneyGuestPicker

(***************************************************************************)
(* Step05SearchResults._scrape_listings                                    *)
(***************************************************************************)

\* Elements of one kind on a results page.
MaxItems == 3
\* min(schema_count, 20), min(card_count, 20)
ScrapeCap == 20

\* What reading an element gives: a title, no title, or an exception.
NoTitle == ""
ItemRaises == "raise"
ItemKinds == {"Loft in Berlin", NoTitle, ItemRaises}

\* A long results page: one element more than the loops read, all titled
\* but for one element at the start, at the cap or just past it.
LongPages ==
    { [i \in 1..(ScrapeCap + 1) |-> IF i = odd THEN kind ELSE "Loft in Berlin"] :
        odd \in {1, ScrapeCap, ScrapeCap + 1}, kind \in ItemKinds }

Pages == UNION { [1..n -> ItemKinds] : n \in 0..MaxItems } \cup LongPages

ExtractTier_Uncapped(tier, items) ==
    LET n    == Len(items)
        read == [i \in 1..n |-> [tier |-> tier, item |-> i, title |-> items[i]]]
    IN  SelectSeq(read, LAMBDA r : r.title # NoTitle /\ r.title # ItemRaises)

\* One tier's loop: the first ScrapeCap elements in order, a record for each
\* element that gives a non-empty title; an element that raises is skipped.
ExtractTier(tier, items) ==
    LET n    == Min2(Len(items), ScrapeCap)
        read == [i \in 1..n |-> [tier |-> tier, item |-> i, title |-> items[i]]]
    IN  SelectSeq(read, LAMBDA r : r.title # NoTitle /\ r.title # ItemRaises)

\* Calls of _scrape_listings on one page.
MaxScrapes == 2

FreshListings_Carried(listings) == listings

\* `listings = []` at the top of every call
FreshListings(listings) == << >>

\* What one call leaves behind for its caller.
ScrapeOutcome(listings, cardRan) == [listings |-> listings, cardRan |-> cardRan]

RunsCardTier_NoSchemaItems(schemaCount, listings) == schemaCount = 0

\* `if not listings:` before the card tier
RunsCardTier(schemaCount, listings) == listings = << >>

InitScrape ==
    /\ lPc = "schema"
    /\ lSchema \in Pages
    /\ lCards \in Pages
    /\ lListings = << >>
    /\ lYield = 0
    /\ lCardRan = FALSE
    /\ lCalls = 0
    /\ lPrev = << >>

IdleScrape ==
    /\ lPc = "idle"
    /\ lSchema = << >>
    /\ lCards = << >>
    /\ lListings = << >>
    /\ lYield = 0
    /\ lCardRan = FALSE
    /\ lCalls = 0
    /\ lPrev = << >>

\* From the entry of _scrape_listings through the structured tier, and the
\* return when the card tier is not entered.
ScrapeSchemaTier ==
    /\ lPc \in {"schema", "done"}
    /\ lCalls < MaxScrapes
    /\ lCalls' = lCalls + 1
    /\ lPrev' = IF lPc = "done" THEN Append(lPrev, ScrapeOutcome(lListings, lCardRan))
                ELSE lPrev
    /\ lCardRan' = FALSE
    /\ LET found == IF Len(lSchema) # 0 THEN ExtractTier("schema", lSchema) ELSE << >>
       IN  /\ lListings' = FreshListings(lListings) \o found
           /\ lYield' = Len(found)
           /\ lPc' = IF RunsCardTier(Len(lSchema), lListings') THEN "cards" ELSE "done"
    /\ UNCHANGED <<lSchema, lCards, notScrape>>

\* The card tier and the return.
ScrapeCardTier ==
    /\ lPc = "cards"
    /\ lCardRan' = TRUE
    /\ lListings' = lListings \o ExtractTier("card", lCards)
    /\ lPc' = "done"
    /\ UNCHANGED <<lSchema, lCards, lYield, lCalls, lPrev, notScrape>>

NextScrape == ScrapeSchemaTier \/ ScrapeCardTier

(***************************************************************************)
(* AirbnbJourney.step_05_search_results                                    *)
(***************************************************************************)

\* inner_text() of a title element: a title, the empty string, or an exception.
TitleKinds == {"Loft in Berlin", NoTitle, ItemRaises}

TitlePages == UNION { [1..n -> TitleKinds] : n \in 0..MaxItems }

\* The row SearchListing.objects.create writes for the element at idx.
ListingRow(idx, title) == [position |-> idx, title |-> title]

InitListing ==
    /\ tPc = "load"
    /\ tTitles \in TitlePages
    /\ tIdx = 0
    /\ tRows = << >>
    /\ tData = << >>
    /\ tSinkFails = 0

IdleListing ==
    /\ tPc = "idle"
    /\ tTitles = << >>
    /\ tIdx = 0
    /\ tRows = << >>
    /\ tData = << >>
    /\ tSinkFails = 0

\* The wait for a listing card and `assert page_loaded`.
JourneyResultsLoad ==
    /\ tPc = "load"
    /\ \E pageLoaded \in BOOLEAN :
         tPc' = IF pageLoaded THEN "items" ELSE "raised"
    /\ UNCHANGED <<tTitles, tIdx, tRows, tData, tSinkFails, notListing>>

\* One pass of `for idx, title_el in enumerate(title_els)`: an exception from
\* the read or from the create is caught by the loop's own handler.
JourneyScrapeItem ==
    /\ tPc = "items"
    /\ tIdx < Len(tTitles)
    /\ LET title == tTitles[tIdx + 1]
       IN  \E created \in BOOLEAN :
             IF title # ItemRaises /\ created
               THEN /\ tRows' = Append(tRows, ListingRow(tIdx, title))
                    /\ tData' = Append(tData, title)
                    /\ UNCHANGED tSinkFails
               ELSE /\ created => title = ItemRaises
                    /\ tSinkFails' = IF title # ItemRaises THEN tSinkFails + 1
                                     ELSE tSinkFails
                    /\ UNCHANGED <<tRows, tData>>
    /\ tIdx' = tIdx + 1
    /\ UNCHANGED <<tPc, tTitles, notListing>>

\* `assert listings_data` and the return.
JourneyScrapeEnd ==
    /\ tPc = "items"
    /\ tIdx = Len(tTitles)
    /\ tPc' = IF tData # << >> THEN "done" ELSE "raised"
    /\ UNCHANGED <<tTitles, tIdx, tRows, tData, tSinkFails, notListing>>

NextListing == JourneyResultsLoad \/ JourneyScrapeItem \/ JourneyScrapeEnd

(***************************************************************************)
(* Screenshots: BrowserService.take_screenshot as the stage classes call   *)
(* it, and AirbnbJourney._screenshot inside the steps' `with` blocks       *)
(***************************************************************************)

\* Screenshot calls on the full path of each stage class's run, stages 1..6.
StageShots == <<3, 2, 2, 3, 1, 3>>

\* _screenshot calls on the full path of each AirbnbJourney step.
JourneyShots == <<2, 2, 3, 3, 1, 2>>

ShotPoints(prog, stage) ==
    IF prog = "stage" THEN StageShots[stage] ELSE JourneyShots[stage]

NoPath == "None"
SavedPath == "png"

\* BrowserService.take_screenshot: None when screenshots are disabled or
\* page.screenshot raises, the file path otherwise.
BrowserTakeScreenshot(enabled, raises) ==
    IF ~enabled THEN [raised |-> FALSE, path |-> NoPath]
    ELSE IF raises THEN [raised |-> FALSE, path |-> NoPath]
    ELSE [raised |-> FALSE, path |-> SavedPath]

\* utils.screenshot.take_screenshot under AirbnbJourney._screenshot: neither
\* has a handler around page.screenshot.
JourneyScreenshot(raises) ==
    IF raises THEN [raised |-> TRUE, path |-> NoPath]
    ELSE [raised |-> FALSE, path |-> SavedPath]

\* StepLogger._end_step: an exception leaving the `with` block fails the step.
EndStepStatus(status, raised) == IF raised THEN "failed" ELSE status

InitShot ==
    /\ hProg \in {"stage", "journey"}
    /\ hStage \in 1..NumSteps
    /\ hPc = "run"
    /\ hEnabled \in BOOLEAN
    /\ hProg = "journey" => hEnabled
    /\ hPoint = 0
    /\ hPaths = << >>
    /\ hShotFails = 0
    /\ hShotRaised = FALSE
    /\ hOk = TRUE
    /\ hStatus = "passed"

IdleShot ==
    /\ hProg = "idle"
    /\ hStage = 0
    /\ hPc = "idle"
    /\ hEnabled = FALSE
    /\ hPoint = 0
    /\ hPaths = << >>
    /\ hShotFails = 0
    /\ hShotRaised = FALSE
    /\ hOk = TRUE
    /\ hStatus = "passed"

\* A stage class's run: one interaction, the take_screenshot call after it
\* and the save_test_result that records the interaction's outcome.  After
\* a failed interaction some stages return at once, others go on.
StageShotSegment ==
    /\ hProg = "stage"
    /\ hPc = "run"
    /\ hPoint < ShotPoints(hProg, hStage)
    /\ \E ok \in BOOLEAN, early \in BOOLEAN, raises \in BOOLEAN :
         LET shot == BrowserTakeScreenshot(hEnabled, raises)
         IN  /\ raises => hEnabled
             /\ early => ~ok
             /\ hPoint' = hPoint + 1
             /\ hPaths' = Append(hPaths, shot.path)
             /\ hShotFails' = IF raises THEN hShotFails + 1 ELSE hShotFails
             /\ hShotRaised' = IF shot.raised THEN TRUE ELSE hShotRaised
             /\ hOk' = IF ok THEN hOk ELSE FALSE
             /\ hStatus' = IF shot.raised THEN "failed"
                           ELSE IF ok THEN hStatus
                           ELSE "failed"
             /\ hPc' = IF shot.raised THEN "raised"
                       ELSE IF early THEN "done"
                       ELSE IF hPoint + 1 = ShotPoints(hProg, hStage) THEN "done"
                       ELSE "run"
    /\ UNCHANGED <<hProg, hStage, hEnabled, notShot>>

\* An AirbnbJourney step: one interaction inside the `with` block and the
\* _screenshot call after it; an exception from either leaves the block.
JourneyShotSegment ==
    /\ hProg = "journey"
    /\ hPc = "run"
    /\ hPoint < ShotPoints(hProg, hStage)
    /\ \E ok \in BOOLEAN, raises \in BOOLEAN :
         LET shot == JourneyScreenshot(raises)
         IN  /\ raises => ok
             /\ hOk' = IF ok THEN hOk ELSE FALSE
             /\ IF ok
                  THEN /\ hPoint' = hPoint + 1
                       /\ hPaths' = IF shot.raised THEN hPaths
                                    ELSE Append(hPaths, shot.path)
                       /\ hShotFails' = IF raises THEN hShotFails + 1 ELSE hShotFails
                       /\ hShotRaised' = IF shot.raised THEN TRUE ELSE hShotRaised
                       /\ hStatus' = EndStepStatus(hStatus, shot.raised)
                       /\ hPc' = IF shot.raised THEN "raised"
                                 ELSE IF hPoint + 1 = ShotPoints(hProg, hStage)
                                   THEN "done"
                                 ELSE "run"
                  ELSE /\ hStatus' = EndStepStatus(hStatus, TRUE)
                       /\ hPc' = "raised"
                       /\ UNCHANGED <<hPoint, hPaths, hShotFails, hShotRaised>>
    /\ UNCHANGED <<hProg, hStage, hEnabled, notShot>>

NextShot == StageShotSegment \/ JourneyShotSegment

(***************************************************************************)
(* Step01LandingAndSearch._enter_destination_and_select                    *)
(***************************************************************************)

\* The calls of the first `try` block and of the second, in order; the block
\* is left at the first call that raises (or answers "not visible").
PreferredCalls == <<"is_visible", "click", "slow_type", "wait_for_selector", "option click">>
SecondCalls == <<"click", "slow_type", "wait_for_selector", "option click">>

\* The position in a block of the call named c.
CallAt(calls, c) == CHOOSE i \in 1..Len(calls) : calls[i] = c

\* range(3) of the option loop
OptionLoopTries == 3

\* After `passed` calls of a block went through: was the destination typed,
\* was the option click issued, did it go through.
BlockTyped(calls, passed) == passed >= CallAt(calls, "slow_type")
BlockTriedOption(calls, passed) == passed >= CallAt(calls, "option click") - 1
BlockClicked(calls, passed) == passed = Len(calls)

InitEntry ==
    /\ ePc = "preferred"
    /\ eTyped = 0
    /\ eField = 0
    /\ eOptTries = 0
    /\ eClicked = FALSE
    /\ eLoop = 0
    /\ eEnter = 0
    /\ eReturn = "none"

IdleEntry ==
    /\ ePc = "idle"
    /\ eTyped = 0
    /\ eField = 0
    /\ eOptTries = 0
    /\ eClicked = FALSE
    /\ eLoop = 0
    /\ eEnter = 0
    /\ eReturn = "none"

\* BrowserService.slow_type with clear_first left at False: element.type adds
\* the text to what the input holds.
SlowType(field, typed) == IF typed THEN field + 1 ELSE field

\* Control+A, Backspace and type of the handler: the input is emptied before
\* the text is typed; a raise before Backspace leaves it as it was.
Retype(field, cleared, typed) == IF typed THEN 1 ELSE IF cleared THEN 0 ELSE field

\* A block of calls under one `try`: `return True` after the last call, the
\* handler's continuation otherwise.
EntryBlock(calls, passed, onFail) ==
    /\ eTyped' = IF BlockTyped(calls, passed) THEN eTyped + 1 ELSE eTyped
    /\ eField' = SlowType(eField, BlockTyped(calls, passed))
    /\ eOptTries' = IF BlockTriedOption(calls, passed) THEN eOptTries + 1 ELSE eOptTries
    /\ eClicked' = BlockClicked(calls, passed)
    /\ ePc' = IF BlockClicked(calls, passed) THEN "returned" ELSE onFail
    /\ eReturn' = IF BlockClicked(calls, passed) THEN "True" ELSE eReturn

\* The first `try`: the query field by test id.
EnterPreferred ==
    /\ ePc = "preferred"
    /\ \E passed \in 0..Len(PreferredCalls) :
         EntryBlock(PreferredCalls, passed, "where")
    /\ UNCHANGED <<eLoop, eEnter, notEntry>>

\* _open_where_and_get_input and _resolve_text_input, each with its
\* `return False`.
OpenWhereInput ==
    /\ ePc = "where"
    /\ \E found \in BOOLEAN, same \in BOOLEAN :
         /\ ePc' = IF found THEN "second" ELSE "returned"
         /\ eReturn' = IF found THEN eReturn ELSE "False"
         /\ eField' = IF found /\ ~same THEN 0 ELSE eField
    /\ UNCHANGED <<eTyped, eOptTries, eClicked, eLoop, eEnter, notEntry>>

\* The second `try`.
EnterSecond ==
    /\ ePc = "second"
    /\ \E passed \in 0..Len(SecondCalls) :
         EntryBlock(SecondCalls, passed, "retype")
    /\ UNCHANGED <<eLoop, eEnter, notEntry>>

\* The handler of the second `try`: select all, delete, type again; an
\* exception here returns False.
RetypeDestination ==
    /\ ePc = "retype"
    /\ \E typed \in BOOLEAN, cleared \in BOOLEAN :
         /\ typed => cleared
         /\ eTyped' = IF typed THEN eTyped + 1 ELSE eTyped
         /\ eField' = Retype(eField, cleared, typed)
         /\ ePc' = IF typed THEN "option0" ELSE "returned"
         /\ eReturn' = IF typed THEN eReturn ELSE "False"
    /\ UNCHANGED <<eOptTries, eClicked, eLoop, eEnter, notEntry>>

\* option0 by test id: visible and clicked, or on to the loop.
ClickOption0 ==
    /\ ePc = "option0"
    /\ \E visible \in BOOLEAN, clicked \in BOOLEAN :
         /\ clicked => visible
         /\ eOptTries' = IF visible THEN eOptTries + 1 ELSE eOptTries
         /\ eClicked' = clicked
         /\ ePc' = IF clicked THEN "returned" ELSE "loop"
         /\ eReturn' = IF clicked THEN "True" ELSE eReturn
    /\ UNCHANGED <<eTyped, eField, eLoop, eEnter, notEntry>>

\* One pass of `for _ in range(3)` over get_by_role("option").first.
ClickFirstOption ==
    /\ ePc = "loop"
    /\ eLoop < OptionLoopTries
    /\ \E visible \in BOOLEAN, clicked \in BOOLEAN :
         /\ clicked => visible
         /\ eLoop' = eLoop + 1
         /\ eOptTries' = IF visible THEN eOptTries + 1 ELSE eOptTries
         /\ eClicked' = clicked
         /\ ePc' = IF clicked THEN "returned"
                   ELSE IF eLoop + 1 = OptionLoopTries THEN "enter"
                   ELSE "loop"
         /\ eReturn' = IF clicked THEN "True" ELSE eReturn
    /\ UNCHANGED <<eTyped, eField, eEnter, notEntry>>

\* keyboard.press("Enter") and `return False`.
PressEnter ==
    /\ ePc = "enter"
    /\ eEnter' = eEnter + 1
    /\ ePc' = "returned"
    /\ eReturn' = "False"
    /\ UNCHANGED <<eTyped, eField, eOptTries, eClicked, eLoop, notEntry>>

NextEntry ==
    \/ EnterPreferred \/ OpenWhereInput \/ EnterSecond \/ RetypeDestination
    \/ ClickOption0 \/ ClickFirstOption \/ PressEnter

(***************************************************************************)
(* The increment loops: _apply_codegen_guest_clicks, _click_increment and  *)
(* the adults loop of AirbnbJourney.step_04_guest_picker, pass by pass     *)
(***************************************************************************)

StepperFns == {"codegen", "click_increment", "journey"}

\* The counts each loop is run with: the `steps` table, the random adults
\* and children targets, and target_total - 1.
RequestedCounts(fn) ==
    CASE fn = "codegen" -> 1..3
      [] fn = "click_increment" -> 0..3
      [] fn = "journey" -> 1..4

\* What a pass finds: the button clickable, hidden or disabled, or a call
\* that raises (the check itself, or the click after a good check).
PassOutcomes == {"clickable", "disabled", "check raises", "click raises"}

ClickAllowed_Unchecked(outcome) == outcome # "check raises"

\* `if btn.is_visible(...) and btn.is_enabled():` before every click
ClickAllowed(outcome) == outcome \in {"clickable", "click raises"}

\* `break` / `if not clicked: break` after a pass without a counted click;
\* the journey loop has neither.
StopsWhenNotClicked(fn) == fn # "journey"

InitStepper ==
    /\ kFn \in StepperFns
    /\ kPc = "loop"
    /\ kCount \in RequestedCounts(kFn)
    /\ kPass = 0
    /\ kDone = 0
    /\ kChecksOk = 0
    /\ kClicks = 0
    /\ kLate = 0

IdleStepper ==
    /\ kFn = "idle"
    /\ kPc = "idle"
    /\ kCount = 0
    /\ kPass = 0
    /\ kDone = 0
    /\ kChecksOk = 0
    /\ kClicks = 0
    /\ kLate = 0

\* One pass of `for _ in range(count)`.
StepperPass ==
    /\ kPc = "loop"
    /\ kPass < kCount
    /\ \E outcome \in PassOutcomes :
         /\ kPass' = kPass + 1
         /\ kLate' = IF kDone < kPass THEN kLate + 1 ELSE kLate
         /\ kChecksOk' = IF outcome \in {"clickable", "click raises"}
                           THEN kChecksOk + 1 ELSE kChecksOk
         /\ kClicks' = IF ClickAllowed(outcome) THEN kClicks + 1 ELSE kClicks
         /\ kDone' = IF ClickAllowed(outcome) /\ outcome # "click raises"
                       THEN kDone + 1 ELSE kDone
         /\ kPc' = IF kDone' = kDone /\ StopsWhenNotClicked(kFn) THEN "done"
                   ELSE "loop"
    /\ UNCHANGED <<kFn, kCount, notStepper>>

\* The loop has run out of passes.
StepperReturn ==
    /\ kPc = "loop"
    /\ kPass = kCount
    /\ kPc' = "done"
    /\ UNCHANGED <<kFn, kCount, kPass, kDone, kChecksOk, kClicks, kLate, notStepper>>

NextStepper == StepperPass \/ StepperReturn

(***************************************************************************)
(* Step05SearchResults.run: the "dates preserved" and the guest-count      *)
(* verdicts                                                                *)
(***************************************************************************)

\* The renderings _date_tokens gives for one date: "%b %-d", "%B %-d", and
\* "%-m/%-d", which the fourth expression renders a second time.
TokenForms == {"abbr", "full", "slash"}
TokensOf(form) == IF form = "slash" THEN 2 ELSE 1

\* date_info values: each of checkin and checkout present or None.
DateInfos == [checkin : BOOLEAN, checkout : BOOLEAN]

\* A URL: has one of the direct date keys; carries the chosen check-in and
\* check-out strings; the value of its adults parameter (0: no parameter);
\* contains the word "guests".
Urls ==
    [key : BOOLEAN, checkin : BOOLEAN, checkout : BOOLEAN,
     adults : 0..MaxGuests, guests : BOOLEAN]

\* The text read from the search bar and the body: is there any; which
\* renderings of the chosen dates occur in it; does it hold a month
\* abbreviation followed by a day number.
Texts ==
    [read : BOOLEAN, checkin : SUBSET TokenForms, checkout : SUBSET TokenForms,
     monthDay : BOOLEAN]

NoUrl == [key |-> FALSE, checkin |-> FALSE, checkout |-> FALSE, adults |-> 0,
          guests |-> FALSE]
NoText == [read |-> FALSE, checkin |-> {}, checkout |-> {}, monthDay |-> FALSE]
NoInfo == [checkin |-> FALSE, checkout |-> FALSE]

\* `matched = sum(1 for t in tokens if t.lower() in haystack)`
RECURSIVE SumTokens(_)
SumTokens(forms) ==
    IF forms = {} THEN 0
    ELSE LET f == CHOOSE x \in forms : TRUE
         IN  TokensOf(f) + SumTokens(forms \ {f})

Matched(text) == SumTokens(text.checkin) + SumTokens(text.checkout)

\* _check_dates_in_ui
CheckDatesInUi(info, text) ==
    IF ~(info.checkin /\ info.checkout) THEN FALSE
    ELSE IF ~text.read THEN FALSE
    ELSE IF Matched(text) >= 2 THEN TRUE
    ELSE text.monthDay

\* _check_dates_in_url
CheckDatesInUrl(info, url) ==
    IF ~(info.checkin /\ info.checkout) THEN FALSE
    ELSE IF url.key THEN TRUE
    ELSE url.checkin /\ url.checkout

\* guests_in_url: 'adults' in url, 'guests' in url, or f'adults={guest_count}'
GuestsInUrl(count, url) ==
    IF url.adults # 0 THEN TRUE
    ELSE IF url.guests THEN TRUE
    ELSE url.adults # 0 /\ url.adults = count

\* The page can only carry a chosen date that exists, and text that holds an
\* abbreviated rendering holds a month abbreviation and a day number.
Consistent(info, url, text) ==
    /\ url.checkin => info.checkin
    /\ url.checkout => info.checkout
    /\ text.checkin # {} => (info.checkin /\ text.read)
    /\ text.checkout # {} => (info.checkout /\ text.read)
    /\ text.monthDay => text.read
    /\ "abbr" \in (text.checkin \cup text.checkout) => text.monthDay

InitVerify ==
    /\ vCheck \in {"dates", "guests"}
    /\ vPc = "run"
    /\ vInfo \in DateInfos
    /\ vGuestCount \in 0..MaxGuests
    /\ vUrl \in Urls
    /\ vText \in Texts
    /\ Consistent(vInfo, vUrl, vText)
    /\ vCheck = "dates" => (vGuestCount = 0 /\ vUrl.adults = 0 /\ ~vUrl.guests)
    /\ vCheck = "guests" =>
          (vInfo = NoInfo /\ vText = NoText /\ ~vUrl.key)
    /\ vInUrl = FALSE
    /\ vInUi = FALSE
    /\ vPassed = FALSE

IdleVerify ==
    /\ vCheck = "idle"
    /\ vPc = "idle"
    /\ vInfo = NoInfo
    /\ vGuestCount = 0
    /\ vUrl = NoUrl
    /\ vText = NoText
    /\ vInUrl = FALSE
    /\ vInUi = FALSE
    /\ vPassed = FALSE

\* "Selected Dates in URL Validation": dates_preserved
VerifyDates ==
    /\ vCheck = "dates"
    /\ vPc = "run"
    /\ vInUi' = CheckDatesInUi(vInfo, vText)
    /\ vInUrl' = CheckDatesInUrl(vInfo, vUrl)
    /\ vPassed' = IF vInUrl' THEN TRUE ELSE vInUi'
    /\ vPc' = "done"
    /\ UNCHANGED <<vCheck, vInfo, vGuestCount, vUrl, vText, notVerify>>

\* "Selected Guest Count in URL Validation"
VerifyGuests ==
    /\ vCheck = "guests"
    /\ vPc = "run"
    /\ vPassed' = GuestsInUrl(vGuestCount, vUrl)
    /\ vPc' = "done"
    /\ UNCHANGED <<vCheck, vInfo, vGuestCount, vUrl, vText, vInUrl, vInUi, notVerify>>

NextVerify == VerifyDates \/ VerifyGuests

(***************************************************************************)
(* Gallery images: Step06ListingDetails._collect_gallery_images and the    *)
(* image loop of AirbnbJourney.step_06_listing_detail                      *)
(***************************************************************************)

\* Images under one selector.
MaxImgs == 2

NoSrc == ""
SrcRaises == "raise"
PlainDataUri == "data:image/gif;base64,R0lGOD"
SvgDataUri == "data:image/svg+xml,%3Csvg xmlns='http://www.w3.org/2000/svg'/%3E"

\* What get_attribute('src') gives for an image.
SrcKinds ==
    {"https://a0.muscache.com/1.jpg", "https://a0.muscache.com/2.jpg",
     PlainDataUri, SvgDataUri, NoSrc, SrcRaises}

ImageLists == UNION { [1..n -> SrcKinds] : n \in 0..MaxImgs }

\* src.startswith('data:')
StartsWithData(src) == src \in {PlainDataUri, SvgDataUri}

\* 'http' in src
ContainsHttp(src) == src \notin {PlainDataUri, NoSrc, SrcRaises}

\* `if src and not src.startswith('data:')`
KeepsGallerySrc(src) == src # NoSrc /\ ~StartsWithData(src)

\* `if src and 'http' in src`
KeepsFallbackSrc(src) == src # NoSrc /\ ContainsHttp(src)

\* `if src and src not in image_urls` of the journey
KeepsJourneySrc(src) == src # NoSrc

\* The filter of each of the three image loops.
KeepsSrc(loop, src) ==
    CASE loop = "gallery"  -> KeepsGallerySrc(src)
      [] loop = "fallback" -> KeepsFallbackSrc(src)
      [] loop = "journey"  -> KeepsJourneySrc(src)

\* image_urls.add(src) / the guarded append: a URL is held once.
AddUrl(urls, src) ==
    IF \E i \in 1..Len(urls) : urls[i] = src THEN urls ELSE Append(urls, src)

\* One loop over images: a kept src is added, a read that raises is skipped.
RECURSIVE CollectFrom(_, _, _, _)
CollectFrom(urls, imgs, k, loop) ==
    IF k > Len(imgs) THEN urls
    ELSE IF imgs[k] # SrcRaises /\ KeepsSrc(loop, imgs[k])
      THEN CollectFrom(AddUrl(urls, imgs[k]), imgs, k + 1, loop)
      ELSE CollectFrom(urls, imgs, k + 1, loop)

InitGallery ==
    /\ iProg \in {"stage", "journey"}
    /\ iPc = "gallery"
    /\ iGallery \in ImageLists
    /\ iAll \in ImageLists
    /\ iProg = "journey" => (iAll = << >> /\ \A k \in 1..Len(iGallery) : iGallery[k] # SrcRaises)
    /\ iUrls = << >>
    /\ iFallback = FALSE

IdleGallery ==
    /\ iProg = "idle"
    /\ iPc = "idle"
    /\ iGallery = << >>
    /\ iAll = << >>
    /\ iUrls = << >>
    /\ iFallback = FALSE

\* The loop over gallery_selectors.
CollectGallery ==
    /\ iProg = "stage"
    /\ iPc = "gallery"
    /\ iUrls' = CollectFrom(<< >>, iGallery, 1, "gallery")
    /\ iPc' = IF iUrls' = << >> THEN "fallback" ELSE "done"
    /\ UNCHANGED <<iProg, iGallery, iAll, iFallback, notGallery>>

\* `if not image_urls:` the loop over every <img>.
CollectAllImages ==
    /\ iProg = "stage"
    /\ iPc = "fallback"
    /\ iUrls' = CollectFrom(iUrls, iAll, 1, "fallback")
    /\ iFallback' = TRUE
    /\ iPc' = "done"
    /\ UNCHANGED <<iProg, iGallery, iAll, notGallery>>

\* The image loop of step_06_listing_detail.
JourneyCollectImages ==
    /\ iProg = "journey"
    /\ iPc = "gallery"
    /\ iUrls' = CollectFrom(<< >>, iGallery, 1, "journey")
    /\ iPc' = "done"
    /\ UNCHANGED <<iProg, iGallery, iAll, iFallback, notGallery>>

NextGallery == CollectGallery \/ CollectAllImages \/ JourneyCollectImages

(***************************************************************************)
(* Opening the selected listing: Step06ListingDetails._open_listing and    *)
(* the navigation of AirbnbJourney.step_06_listing_detail                  *)
(***************************************************************************)

\* listing_url of the selected record: "absolute" contains 'airbnb.com/rooms/',
\* "relative" starts with '/rooms/', "other" is any other non-empty string.
UrlKinds == {"absolute", "relative", "other", "empty"}

NoListing == 0

\* `'airbnb.com/rooms/' in listing_url` or `listing_url.startswith('/rooms/')`
WellFormed(kind) == kind \in {"absolute", "relative"}

\* page.goto takes the URL as stored only in the journey; a URL without a
\* scheme cannot be navigated to.
JourneyGotoCanLoad(kind) == kind = "absolute"

InitOpen ==
    /\ oProg \in {"stage", "journey"}
    /\ oPc = "url"
    /\ oSel \in 1..MaxListings
    /\ oUrlKind \in UrlKinds
    /\ oFirstLink \in 0..MaxListings
    /\ oDhaka \in 0..MaxListings
    /\ oPage = NoListing
    /\ oRaised = FALSE

IdleOpen ==
    /\ oProg = "idle"
    /\ oPc = "idle"
    /\ oSel = 0
    /\ oUrlKind = "empty"
    /\ oFirstLink = 0
    /\ oDhaka = 0
    /\ oPage = NoListing
    /\ oRaised = FALSE

\* The two direct navigations of _open_listing: page.goto outside any try.
OpenByUrl ==
    /\ oProg = "stage"
    /\ oPc = "url"
    /\ IF WellFormed(oUrlKind)
         THEN \E loads \in BOOLEAN :
                /\ oPage' = IF loads THEN oSel ELSE NoListing
                /\ oRaised' = ~loads
                /\ oPc' = "done"
         ELSE /\ oPc' = "links"
              /\ UNCHANGED <<oPage, oRaised>>
    /\ UNCHANGED <<oProg, oSel, oUrlKind, oFirstLink, oDhaka, notOpen>>

\* links[0] of every anchor to /rooms/ on the page.
OpenFirstLink ==
    /\ oProg = "stage"
    /\ oPc = "links"
    /\ \E loads \in BOOLEAN :
         IF oFirstLink # NoListing /\ loads
           THEN /\ oPage' = oFirstLink
                /\ oPc' = "done"
           ELSE /\ oPc' = "codegen"
                /\ UNCHANGED oPage
    /\ UNCHANGED <<oProg, oSel, oUrlKind, oFirstLink, oDhaka, oRaised, notOpen>>

\* The click on the card labelled "Apartment in Dhaka".
OpenCodegenCard ==
    /\ oProg = "stage"
    /\ oPc = "codegen"
    /\ \E clicks \in BOOLEAN :
         oPage' = IF oDhaka # NoListing /\ clicks THEN oDhaka ELSE oPage
    /\ oPc' = "done"
    /\ UNCHANGED <<oProg, oSel, oUrlKind, oFirstLink, oDhaka, oRaised, notOpen>>

\* `if chosen.listing_url:` page.goto inside try.
JourneyGoto ==
    /\ oProg = "journey"
    /\ oPc = "url"
    /\ \E loads \in BOOLEAN :
         IF oUrlKind # "empty" /\ JourneyGotoCanLoad(oUrlKind) /\ loads
           THEN /\ oPage' = oSel
                /\ oPc' = "done"
           ELSE /\ oPc' = "card"
                /\ UNCHANGED oPage
    /\ UNCHANGED <<oProg, oSel, oUrlKind, oFirstLink, oDhaka, oRaised, notOpen>>

\* `if not detail_opened:` go_back outside the try, then the click on the
\* first anchor whose href contains listing_url[-20:].
JourneyCardClick ==
    /\ oProg = "journey"
    /\ oPc = "card"
    /\ \E back, clicks \in BOOLEAN :
         /\ oRaised' = ~back
         /\ oPage' = IF back /\ clicks
                       THEN (IF oUrlKind = "empty" THEN oFirstLink ELSE oSel)
                       ELSE oPage
    /\ oPc' = "done"
    /\ UNCHANGED <<oProg, oSel, oUrlKind, oFirstLink, oDhaka, notOpen>>

NextOpen ==
    \/ OpenByUrl
    \/ OpenFirstLink
    \/ OpenCodegenCard
    \/ JourneyGoto
    \/ JourneyCardClick

(***************************************************************************)
(* Day clicks of Step03DatePicker._select_random_two_dates: what each      *)
(* selection path leaves clicked on the calendar                           *)
(***************************************************************************)

\* One pass of the loop of _select_two_available_days: fewer than two day
\* elements, unusable labels, a raise before any click, the check-in click
\* through and the check-out click raising, or both clicks through.
PassResults == {"few", "labels", "raised", "checkin only", "both"}

\* Clicks on first and on second day elements that a result adds.
InClicks(result) == IF result \in {"checkin only", "both"} THEN 1 ELSE 0
OutClicks(result) == IF result = "both" THEN 1 ELSE 0

\* A count of clicks after `more` went through; a count past two is kept as
\* three.
DayClicks(count, more) == IF count + more > 2 THEN 3 ELSE count + more

InitClicks ==
    /\ qPc = "available"
    /\ qTries = 0
    /\ qLast = "none"
    /\ qIn = 0
    /\ qOut = 0
    /\ qOk = FALSE

IdleClicks ==
    /\ qPc = "idle"
    /\ qTries = 0
    /\ qLast = "none"
    /\ qIn = 0
    /\ qOut = 0
    /\ qOk = FALSE

\* One iteration of the loop of _select_two_available_days.
ClickTwoAvailableDays ==
    /\ qPc = "available"
    /\ \E result \in PassResults :
         /\ qLast' = result
         /\ qIn' = DayClicks(qIn, InClicks(result))
         /\ qOut' = DayClicks(qOut, OutClicks(result))
         /\ IF result = "both"
              THEN /\ qOk' = TRUE
                   /\ qPc' = "done"
                   /\ UNCHANGED qTries
              ELSE /\ qTries' = qTries + 1
                   /\ qPc' = IF AttemptsLeft(qTries) THEN "available" ELSE "js"
                   /\ UNCHANGED qOk
    /\ UNCHANGED notClicks

\* _select_two_days_via_js: both clicks are made inside one page.evaluate.
ClickTwoDaysViaJs ==
    /\ qPc = "js"
    /\ \E evaluated \in BOOLEAN :
         IF evaluated
           THEN /\ qLast' = "both"
                /\ qIn' = DayClicks(qIn, 1)
                /\ qOut' = DayClicks(qOut, 1)
                /\ qOk' = TRUE
                /\ qPc' = "done"
           ELSE /\ qLast' = "raised"
                /\ qPc' = "role"
                /\ UNCHANGED <<qIn, qOut, qOk>>
    /\ UNCHANGED <<qTries, notClicks>>

\* _select_by_role_date_buttons: each exact label is clicked or not on its
\* own; with fewer than two, the generic loop clicks up to two day buttons.
ClickByRoleDateButtons ==
    /\ qPc = "role"
    /\ \E exact \in SUBSET {ExactIn, ExactOut}, generic \in 0..2 :
         LET exIn  == IF ExactIn \in exact THEN 1 ELSE 0
             exOut == IF ExactOut \in exact THEN 1 ELSE 0
             genIn  == IF generic >= 1 THEN 1 ELSE 0
             genOut == IF generic = 2 THEN 1 ELSE 0
         IN  IF Cardinality(exact) = 2
               THEN /\ generic = 0
                    /\ qLast' = "both"
                    /\ qIn' = DayClicks(qIn, 1)
                    /\ qOut' = DayClicks(qOut, 1)
                    /\ qOk' = TRUE
                    /\ qPc' = "done"
               ELSE /\ qIn' = DayClicks(qIn, exIn + genIn)
                    /\ qOut' = DayClicks(qOut, exOut + genOut)
                    /\ qLast' = IF generic = 2 THEN "both" ELSE "few"
                    /\ qOk' = (generic = 2)
                    /\ qPc' = IF generic = 2 THEN "done" ELSE "random"
    /\ UNCHANGED <<qTries, notClicks>>

\* The last fallback of _select_random_two_dates.
ClickRandomFallback ==
    /\ qPc = "random"
    /\ \E result \in PassResults \ {"labels"} :
         /\ qLast' = result
         /\ qIn' = DayClicks(qIn, InClicks(result))
         /\ qOut' = DayClicks(qOut, OutClicks(result))
         /\ qOk' = (result = "both")
    /\ qPc' = "done"
    /\ UNCHANGED <<qTries, notClicks>>

NextClicks ==
    \/ ClickTwoAvailableDays \/ ClickTwoDaysViaJs
    \/ ClickByRoleDateButtons \/ ClickRandomFallback

(***************************************************************************)
(* Step03DatePicker.run and Step04GuestPicker.run: what the stage does     *)
(* when its picker did not open                                            *)
(***************************************************************************)

PickerStages == {"dates", "guests"}

\* The opener loops: range(3) over six openers in _open_date_picker, five
\* candidates in _open_guest_picker; clicks counted up to three.
OpenerClicks == 0..3

\* What run returns without a selection: {'checkin': None, 'checkout': None}
\* or 0.
EmptyReturn(stage) == IF stage = "dates" THEN "None, None" ELSE "0"

\* What run returns after the selection code ran.
SelectionReturn(stage, picks) ==
    IF stage = "guests" THEN (IF picks = 0 THEN "0" ELSE "total")
    ELSE IF picks = 2 THEN "checkin, checkout" ELSE "None, None"

ReturnsEarly_Never(opened) == FALSE

\* `if not picker_open: return ...` / `if not opened: return 0`
ReturnsEarly(opened) == ~opened

InitPicker ==
    /\ pStage \in PickerStages
    /\ pPc = "open"
    /\ pOpened = FALSE
    /\ pOpeners = 0
    /\ pPicks = 0
    /\ pNext = 0
    /\ pSearch = 0
    /\ pResults = << >>
    /\ pReturn = "none"

IdlePicker ==
    /\ pStage = "idle"
    /\ pPc = "idle"
    /\ pOpened = FALSE
    /\ pOpeners = 0
    /\ pPicks = 0
    /\ pNext = 0
    /\ pSearch = 0
    /\ pResults = << >>
    /\ pReturn = "none"

\* _open_date_picker / _open_guest_picker, the screenshot, the first test
\* result and the early return.
OpenPicker ==
    /\ pPc = "open"
    /\ \E opened \in BOOLEAN, clicks \in OpenerClicks :
         /\ pOpened' = opened
         /\ pOpeners' = clicks
         /\ pResults' = Append(pResults, [test |-> "open", passed |-> opened])
         /\ pPc' = IF ReturnsEarly(opened) THEN "done" ELSE "act"
         /\ pReturn' = IF ReturnsEarly(opened) THEN EmptyReturn(pStage) ELSE pReturn
    /\ UNCHANGED <<pStage, pPicks, pNext, pSearch, notPicker>>

\* _select_random_two_dates and 'Date Selection Validation'; in the guest
\* stage the second _open_guest_picker when no control is visible, then
\* _add_adults_children_randomly and 'Guest Count Display Verification'.
ActInPicker ==
    /\ pPc = "act"
    /\ \E picks \in 0..2, advances \in 0..2, shown \in BOOLEAN, again \in OpenerClicks :
         /\ pStage = "guests" => advances = 0
         /\ pStage = "dates" => (shown = (picks = 2) /\ again = 0)
         /\ pPicks' = picks
         /\ pNext' = advances
         /\ pOpeners' = pOpeners + again
         /\ pResults' = Append(pResults,
               [test |-> "select",
                passed |-> IF pStage = "dates" THEN picks = 2
                           ELSE IF shown THEN TRUE ELSE picks > 0])
         /\ pPc' = IF pStage = "dates" THEN "done" ELSE "search"
         /\ pReturn' = IF pStage = "dates" THEN SelectionReturn(pStage, picks) ELSE pReturn
    /\ UNCHANGED <<pStage, pOpened, pSearch, notPicker>>

\* _click_search, 'Search Button Click After Guest Selection' and the return
\* of total_selected.
SearchAfterGuests ==
    /\ pPc = "search"
    /\ \E searched \in BOOLEAN :
         /\ pSearch' = IF searched THEN 1 ELSE 0
         /\ pResults' = Append(pResults, [test |-> "search", passed |-> searched])
    /\ pReturn' = SelectionReturn(pStage, pPicks)
    /\ pPc' = "done"
    /\ UNCHANGED <<pStage, pOpened, pOpeners, pPicks, pNext, notPicker>>

NextPicker == OpenPicker \/ ActInPicker \/ SearchAfterGuests

(***************************************************************************)
(* Monitoring logs of run_airbnb_automation: the listeners of              *)
(* BrowserService and Command._save_monitoring_logs                        *)
(***************************************************************************)

\* Calls of _save_monitoring_logs a run with --step = step reaches. The
\* calls follow Step 01, Step 04 and Step 06; the `if step == k: ... return`
\* of stage k comes before the call that follows stage k, except for stage 1.
SavesReached(step) ==
    IF step = 0 THEN 3 ELSE IF step = 1 THEN 1 ELSE IF step <= 4 THEN 1 ELSE 2

\* get_console_logs / get_network_logs return list(self.<logs>): what the
\* attribute holds after the call.
GetLogs(logs) == logs

InitMonitor ==
    /\ mStep \in 0..NumSteps
    /\ mPc = "stages"
    /\ mSaves = 0
    /\ mConsole = << >>
    /\ mNetwork = << >>
    /\ mEvents = 0
    /\ mHanded = << >>

IdleMonitor ==
    /\ mStep = 0
    /\ mPc = "idle"
    /\ mSaves = 0
    /\ mConsole = << >>
    /\ mNetwork = << >>
    /\ mEvents = 0
    /\ mHanded = << >>

\* _on_console / _on_response while stages run.
MonitorEvent ==
    /\ mPc = "stages"
    /\ mEvents < MaxEvents
    /\ mEvents' = mEvents + 1
    /\ \E kind \in {"network", "console"} :
         IF kind = "network"
           THEN mNetwork' = Append(mNetwork, mEvents + 1) /\ UNCHANGED mConsole
           ELSE mConsole' = Append(mConsole, mEvents + 1) /\ UNCHANGED mNetwork
    /\ UNCHANGED <<mStep, mPc, mSaves, mHanded, notMonitor>>

\* The stages up to the next call of _save_monitoring_logs, or up to the
\* `return` of the stage selected with --step.
RunStagesToSave ==
    /\ mPc = "stages"
    /\ mPc' = IF mSaves < SavesReached(mStep) THEN "save" ELSE "done"
    /\ UNCHANGED <<mStep, mSaves, mConsole, mNetwork, mEvents, mHanded, notMonitor>>

\* _save_monitoring_logs: a non-empty list is handed to the sink.
SaveMonitoringLogs ==
    /\ mPc = "save"
    /\ mHanded' = mHanded \o mConsole \o mNetwork
    /\ mConsole' = GetLogs(mConsole)
    /\ mNetwork' = GetLogs(mNetwork)
    /\ mSaves' = mSaves + 1
    /\ mPc' = IF mStep = 1 THEN "done" ELSE "stages"
    /\ UNCHANGED <<mStep, mEvents, notMonitor>>

NextMonitor == MonitorEvent \/ RunStagesToSave \/ SaveMonitoringLogs

(***************************************************************************)
(* Specifications                                                          *)
(***************************************************************************)

StartResolve ==
    /\ InitResolve
    /\ IdleWait
    /\ IdleJourney
    /\ IdleCommand
    /\ IdleSuggestion
    /\ IdleDates
    /\ IdleGuests
    /\ IdleScrape
    /\ IdleListing
    /\ IdleShot
    /\ IdleEntry
    /\ IdleStepper
    /\ IdleVerify
    /\ IdleGallery
    /\ IdleOpen
    /\ IdleClicks
    /\ IdlePicker
    /\ IdleMonitor
SpecResolve == StartResolve /\ [][NextResolve]_vars

StartWait ==
    /\ InitWait
    /\ IdleResolve
    /\ IdleJourney
    /\ IdleCommand
    /\ IdleSuggestion
    /\ IdleDates
    /\ IdleGuests
    /\ IdleScrape
    /\ IdleListing
    /\ IdleShot
    /\ IdleEntry
    /\ IdleStepper
    /\ IdleVerify
    /\ IdleGallery
    /\ IdleOpen
    /\ IdleClicks
    /\ IdlePicker
    /\ IdleMonitor
SpecWait == StartWait /\ [][NextWait]_vars

StartJourney ==
    /\ InitJourney
    /\ IdleResolve
    /\ IdleWait
    /\ IdleCommand
    /\ IdleSuggestion
    /\ IdleDates
    /\ IdleGuests
    /\ IdleScrape
    /\ IdleListing
    /\ IdleShot
    /\ IdleEntry
    /\ IdleStepper
    /\ IdleVerify
    /\ IdleGallery
    /\ IdleOpen
    /\ IdleClicks
    /\ IdlePicker
    /\ IdleMonitor
SpecJourney == StartJourney /\ [][NextJourney]_vars

StartCommand ==
    /\ InitCommand
    /\ IdleResolve
    /\ IdleWait
    /\ IdleJourney
    /\ IdleSuggestion
    /\ IdleDates
    /\ IdleGuests
    /\ IdleScrape
    /\ IdleListing
    /\ IdleShot
    /\ IdleEntry
    /\ IdleStepper
    /\ IdleVerify
    /\ IdleGallery
    /\ IdleOpen
    /\ IdleClicks
    /\ IdlePicker
    /\ IdleMonitor
SpecCommand == StartCommand /\ [][NextCommand]_vars

StartSuggestion ==
    /\ InitSuggestion
    /\ IdleResolve
    /\ IdleWait
    /\ IdleJourney
    /\ IdleCommand
    /\ IdleDates
    /\ IdleGuests
    /\ IdleScrape
    /\ IdleListing
    /\ IdleShot
    /\ IdleEntry
    /\ IdleStepper
    /\ IdleVerify
    /\ IdleGallery
    /\ IdleOpen
    /\ IdleClicks
    /\ IdlePicker
    /\ IdleMonitor
SpecSuggestion == StartSuggestion /\ [][NextSuggestion]_vars

StartDates ==
    /\ InitDates
    /\ IdleResolve
    /\ IdleWait
    /\ IdleJourney
    /\ IdleCommand
    /\ IdleSuggestion
    /\ IdleGuests
    /\ IdleScrape
    /\ IdleListing
    /\ IdleShot
    /\ IdleEntry
    /\ IdleStepper
    /\ IdleVerify
    /\ IdleGallery
    /\ IdleOpen
    /\ IdleClicks
    /\ IdlePicker
    /\ IdleMonitor
SpecDates == StartDates /\ [][NextDates]_vars

\* Each function of the stage runs to its return once called.
\* Command.handle runs to its end: every step, drain and the finally block is
\* taken when it is enabled.
SpecCommandLive == StartCommand /\ [][NextCommand]_vars /\ WF_vars(NextCommand)

SpecDatesLive == StartDates /\ [][NextDates]_vars /\ WF_vars(NextDates)

StartGuests ==
    /\ InitGuests
    /\ IdleResolve
    /\ IdleWait
    /\ IdleJourney
    /\ IdleCommand
    /\ IdleSuggestion
    /\ IdleDates
    /\ IdleScrape
    /\ IdleListing
    /\ IdleShot
    /\ IdleEntry
    /\ IdleStepper
    /\ IdleVerify
    /\ IdleGallery
    /\ IdleOpen
    /\ IdleClicks
    /\ IdlePicker
    /\ IdleMonitor
SpecGuests == StartGuests /\ [][NextGuests]_vars

StartScrape ==
    /\ InitScrape
    /\ IdleResolve
    /\ IdleWait
    /\ IdleJourney
    /\ IdleCommand
    /\ IdleSuggestion
    /\ IdleDates
    /\ IdleGuests
    /\ IdleListing
    /\ IdleShot
    /\ IdleEntry
    /\ IdleStepper
    /\ IdleVerify
    /\ IdleGallery
    /\ IdleOpen
    /\ IdleClicks
    /\ IdlePicker
    /\ IdleMonitor
SpecScrape == StartScrape /\ [][NextScrape]_vars

StartListing ==
    /\ InitListing
    /\ IdleResolve
    /\ IdleWait
    /\ IdleJourney
    /\ IdleCommand
    /\ IdleSuggestion
    /\ IdleDates
    /\ IdleGuests
    /\ IdleScrape
    /\ IdleShot
    /\ IdleEntry
    /\ IdleStepper
    /\ IdleVerify
    /\ IdleGallery
    /\ IdleOpen
    /\ IdleClicks
    /\ IdlePicker
    /\ IdleMonitor
SpecListing == StartListing /\ [][NextListing]_vars

StartShot ==
    /\ InitShot
    /\ IdleResolve
    /\ IdleWait
    /\ IdleJourney
    /\ IdleCommand
    /\ IdleSuggestion
    /\ IdleDates
    /\ IdleGuests
    /\ IdleScrape
    /\ IdleListing
    /\ IdleEntry
    /\ IdleStepper
    /\ IdleVerify
    /\ IdleGallery
    /\ IdleOpen
    /\ IdleClicks
    /\ IdlePicker
    /\ IdleMonitor
SpecShot == StartShot /\ [][NextShot]_vars

StartTenDays ==
    /\ InitTenDays
    /\ IdleResolve
    /\ IdleWait
    /\ IdleJourney
    /\ IdleCommand
    /\ IdleSuggestion
    /\ IdleGuests
    /\ IdleScrape
    /\ IdleListing
    /\ IdleShot
    /\ IdleEntry
    /\ IdleStepper
    /\ IdleVerify
    /\ IdleGallery
    /\ IdleOpen
    /\ IdleClicks
    /\ IdlePicker
    /\ IdleMonitor
SpecTenDays == StartTenDays /\ [][NextDates]_vars

StartEntry ==
    /\ InitEntry
    /\ IdleResolve
    /\ IdleWait
    /\ IdleJourney
    /\ IdleCommand
    /\ IdleSuggestion
    /\ IdleDates
    /\ IdleGuests
    /\ IdleScrape
    /\ IdleListing
    /\ IdleShot
    /\ IdleStepper
    /\ IdleVerify
    /\ IdleGallery
    /\ IdleOpen
    /\ IdleClicks
    /\ IdlePicker
    /\ IdleMonitor
SpecEntry == StartEntry /\ [][NextEntry]_vars

StartStepper ==
    /\ InitStepper
    /\ IdleResolve
    /\ IdleWait
    /\ IdleJourney
    /\ IdleCommand
    /\ IdleSuggestion
    /\ IdleDates
    /\ IdleGuests
    /\ IdleScrape
    /\ IdleListing
    /\ IdleShot
    /\ IdleEntry
    /\ IdleVerify
    /\ IdleGallery
    /\ IdleOpen
    /\ IdleClicks
    /\ IdlePicker
    /\ IdleMonitor
SpecStepper == StartStepper /\ [][NextStepper]_vars

StartVerify ==
    /\ InitVerify
    /\ IdleResolve
    /\ IdleWait
    /\ IdleJourney
    /\ IdleCommand
    /\ IdleSuggestion
    /\ IdleDates
    /\ IdleGuests
    /\ IdleScrape
    /\ IdleListing
    /\ IdleShot
    /\ IdleEntry
    /\ IdleStepper
    /\ IdleGallery
    /\ IdleOpen
    /\ IdleClicks
    /\ IdlePicker
    /\ IdleMonitor
SpecVerify == StartVerify /\ [][NextVerify]_vars

StartGallery ==
    /\ InitGallery
    /\ IdleResolve
    /\ IdleWait
    /\ IdleJourney
    /\ IdleCommand
    /\ IdleSuggestion
    /\ IdleDates
    /\ IdleGuests
    /\ IdleScrape
    /\ IdleListing
    /\ IdleShot
    /\ IdleEntry
    /\ IdleStepper
    /\ IdleVerify
    /\ IdleOpen
    /\ IdleClicks
    /\ IdlePicker
    /\ IdleMonitor
SpecGallery == StartGallery /\ [][NextGallery]_vars

StartOpen ==
    /\ InitOpen
    /\ IdleResolve
    /\ IdleWait
    /\ IdleJourney
    /\ IdleCommand
    /\ IdleSuggestion
    /\ IdleDates
    /\ IdleGuests
    /\ IdleScrape
    /\ IdleListing
    /\ IdleShot
    /\ IdleEntry
    /\ IdleStepper
    /\ IdleVerify
    /\ IdleGallery
    /\ IdleClicks
    /\ IdlePicker
    /\ IdleMonitor
SpecOpen == StartOpen /\ [][NextOpen]_vars

StartClicks ==
    /\ InitClicks
    /\ IdleResolve
    /\ IdleWait
    /\ IdleJourney
    /\ IdleCommand
    /\ IdleSuggestion
    /\ IdleDates
    /\ IdleGuests
    /\ IdleScrape
    /\ IdleListing
    /\ IdleShot
    /\ IdleEntry
    /\ IdleStepper
    /\ IdleVerify
    /\ IdleGallery
    /\ IdleOpen
    /\ IdlePicker
    /\ IdleMonitor
SpecClicks == StartClicks /\ [][NextClicks]_vars

StartPicker ==
    /\ InitPicker
    /\ IdleResolve
    /\ IdleWait
    /\ IdleJourney
    /\ IdleCommand
    /\ IdleSuggestion
    /\ IdleDates
    /\ IdleGuests
    /\ IdleScrape
    /\ IdleListing
    /\ IdleShot
    /\ IdleEntry
    /\ IdleStepper
    /\ IdleVerify
    /\ IdleGallery
    /\ IdleOpen
    /\ IdleClicks
    /\ IdleMonitor
SpecPicker == StartPicker /\ [][NextPicker]_vars

StartMonitor ==
    /\ InitMonitor
    /\ IdleResolve
    /\ IdleWait
    /\ IdleJourney
    /\ IdleCommand
    /\ IdleSuggestion
    /\ IdleDates
    /\ IdleGuests
    /\ IdleScrape
    /\ IdleListing
    /\ IdleShot
    /\ IdleEntry
    /\ IdleStepper
    /\ IdleVerify
    /\ IdleGallery
    /\ IdleOpen
    /\ IdleClicks
    /\ IdlePicker
SpecMonitor == StartMonitor /\ [][NextMonitor]_vars

(***************************************************************************)
(* Claims                                                                  *)
(***************************************************************************)

C2_WaitForAny ==
    /\ (wPc = "done" /\ ~wResult) => wNow - wStart >= WaitTimeout(wFn)
    /\ wSeen => (wPc = "done" /\ wResult)
    /\ (wPc = "done" /\ wResult) => wSeen

\* C2 witness: a wait that started at a non-zero clock value returned False.
C2_Witness ==
    wPc = "done" /\ ~wResult /\ wStart > 0 /\ wNow - wStart >= WaitTimeout(wFn)

\* The stage results of a run: every save_test_result call of stages 1..6.
StageResults(k) == { i \in 1..Len(jResults) : jResults[i].stage = k }
JourneyEnded == jPc \in {"done", "raised"}

\* C3 (as stated): a full run in which every locator candidate and every probe
\* fails ends without raising, and each of the six stages has recorded a
\* result and has recorded no passed result.
C3_AllFailSixFailedStages ==
    (JourneyEnded /\ jStep = 0 /\ jAllFail) =>
        /\ jPc = "done"
        /\ \A k \in 1..6 :
             /\ StageResults(k) # {}
             /\ \A i \in StageResults(k) : ~jResults[i].passed

\* C5 (as stated): the 'Automation Session End' result of a full run is passed
\* if and only if every stage result of the run is passed.
C5_VerdictDerivedFromStages ==
    (jPc = "done" /\ jStep = 0) =>
        \A i \in 1..Len(jResults) :
            jResults[i].test = "Automation Session End" =>
                (jResults[i].passed <=>
                    \A k \in 1..6 : \A m \in StageResults(k) : jResults[m].passed)

\* C4: in run_airbnb_journey the TestCase rows are one per attempted step, with
\* the step numbers 1, 2, ... in order, whether the step returned or raised;
\* once the browser is up, a raising step does not stop the later ones, so the
\* run ends with the rows of steps 1..6.
C4_OneTestCasePerStep ==
    /\ Len(cTestCases) = Len(cAttempted)
    /\ \A i \in 1..Len(cTestCases) :
          cTestCases[i].step_number = i /\ cAttempted[i] = i
    /\ (cPc = "done" /\ cEntered) => Len(cTestCases) = NumSteps

\* C4 witness: the run has ended, the second step raised, and the rows of the
\* steps after it are there.
C4_Witness ==
    /\ cPc = "done" /\ Len(cTestCases) = NumSteps
    /\ cTestCases[2].status = "failed" /\ cTestCases[3].status = "passed"

\* C6: a call of Step02AutoSuggestion.run that finds the date picker already
\* visible issues no click, no key press and no typing, records only passed
\* results and returns True; a further call on the same page finds the date
\* picker visible again and ends the same way.
C6_NoOpWhenPickerOpen ==
    LET noop(o) == /\ o.clicks = 0 /\ o.keys = 0 /\ o.typed = 0
                   /\ o.ret = TRUE
                   /\ Len(o.results) = 2
                   /\ \A i \in 1..Len(o.results) : o.results[i].passed
        now == RunOutcome(sPre, sClicks, sKeys, sTyped, sResults, sReturn)
    IN  /\ (sPc = "returned" /\ sPre) => noop(now)
        /\ \A i \in 1..Len(sPrev) :
              sPrev[i].pre =>
                 /\ noop(sPrev[i])
                 /\ sPc = "returned" => now = sPrev[i]

\* C6 witness: the second call has returned on a page whose calendar is up
\* while the suggestion list is still showing and an earlier probe raises.
C6_Witness ==
    /\ sPc = "returned" /\ sPre /\ Len(sPrev) = 1 /\ sPrev[1].pre
    /\ sSugg = "visible" /\ sProbes[1] = "err" /\ sProbes[2] = "vis"

\* C7: whenever date selection reports a check-in and a check-out, the two
\* labels differ and the check-out element comes strictly after the check-in
\* element in document order, on every selection path and for every number of
\* available day elements.
C7_CheckoutAfterCheckin ==
    (dPc = "done" /\ dOk) => (dCheckin # dCheckout /\ dOutIdx > dInIdx)

\* C8: a guest selection of Step04GuestPicker.run that ends with a positive
\* count has performed at least one adult increment.
C8_PositiveTotalHasAdult ==
    (gProg = "stage" /\ gPc = "done" /\ gTotal > 0) => gAdded["adults"] >= 1

\* C9: the guest count a guest selection returns is the number of adult plus
\* children increments that went through.
C9_CountIsAdultsPlusChildren ==
    gPc = "done" => gTotal = gAdded["adults"] + gAdded["children"]

\* C10: _scrape_listings returns one tier's records: the structured tier's when
\* it yielded at least one, otherwise the card tier's; the card tier is entered
\* exactly when the structured tier yielded none, and no result holds records
\* of both tiers.
C10_OneTierWins ==
    lPc = "done" =>
      /\ lCardRan <=> (lYield = 0)
      /\ lYield > 0 =>
            /\ Len(lListings) = lYield
            /\ \A i \in 1..Len(lListings) : lListings[i].tier = "schema"
      /\ lYield = 0 =>
            /\ \A i \in 1..Len(lListings) : lListings[i].tier = "card"
            /\ Len(lListings) =
                 Cardinality({i \in 1..Min2(Len(lCards), ScrapeCap) :
                                lCards[i] # NoTitle /\ lCards[i] # ItemRaises})
      /\ \A i, j \in 1..Len(lListings) : lListings[i].tier = lListings[j].tier

\* C10 witness: structured elements exist but none gives a title, and the
\* result is the card tier's record.
C10_Witness ==
    /\ lPc = "done" /\ Len(lSchema) = 2 /\ lYield = 0 /\ lCardRan
    /\ Len(lListings) = 1 /\ lListings[1].tier = "card"

\* C11: the positions of the listing rows kept for one run are 0, 1, ..., n-1
\* in creation order, without gaps, whatever page items were dropped.
C11_PositionsGapFree ==
    \A i \in 1..Len(tRows) : tRows[i].position = i - 1

C13_DestinationSetOnce ==
    [][ /\ jCountry # NoValue => jCountry' = jCountry
        /\ jCountry' # jCountry => jPc = "step01" ]_vars

\* C13 witness: a full run has ended after all six stages with the
\* destination Landing picked.
C13_Witness ==
    /\ jPc = "done" /\ jStep = 0 /\ jCountry = "Germany" /\ jDetails /\ jListings > 0

C15_LocalFailureRecorded ==
    /\ (jAllFail /\ StageIdx(jPc) \in 2..7) =>
          \A i \in StageResults(1) :
             jResults[i].test = "Search Field Input" => ~jResults[i].passed
    /\ (jAllFail /\ StageIdx(jPc) \in 3..7) =>
          \A i \in StageResults(2) : ~jResults[i].passed

\* C16: when the Results stage produced no listings and the Detail stage has
\* run, a failed result stands for the Detail stage: one of its own, or the
\* session end of a run requested with step 6.
C16_EmptyResultsFailDetail ==
    (jListings = 0 /\ jPc = "done" /\ jStep \in {0, 6}) =>
       \E i \in 1..Len(jResults) :
          /\ ~jResults[i].passed
          /\ \/ jResults[i].stage = 6
             \/ jStep = 6 /\ jResults[i].test = "Automation Session End"

\* C17: once the browser session is lost during step k of run_airbnb_journey,
\* no step after k is attempted.
C17_NoStageAfterSessionLoss ==
    cLostAt > 0 => Len(cAttempted) = cLostAt

\* C18: an exception from the result sink during a stage does not abort the
\* run of run_airbnb_automation.
C18_SinkFailureDoesNotAbort ==
    jSinkFailedAt > 0 => jPc \notin {"raising", "raised"}

\* C19: a failed screenshot capture never raises out of the stage, never changes
\* the stage's verdict (which follows from the interactions alone) and never
\* stops the stage's remaining interactions, under BrowserService.take_screenshot
\* and under AirbnbJourney._screenshot alike.
C19_ScreenshotFailureIgnored ==
    /\ ~hShotRaised
    /\ hPc \in {"done", "raised"} => (hStatus = "passed" <=> hOk)
    /\ (hPc \in {"done", "raised"} /\ hOk) => hPoint = ShotPoints(hProg, hStage)

\* C20: on a calendar view of ten enabled day elements the first-choice selection
\* of either program clicks the elements at 0-based indices 2 and 6 and reports
\* the labels of those two elements as check-in and check-out.
C20_TenDaysPickTwoAndSix ==
    (dPc = "done" /\ dOk /\ dDays = TenDayCalendar /\ dPath \in {"available", "journey"})
        => /\ dInIdx = 2 + 1
           /\ dOutIdx = 6 + 1
           /\ dCheckin = TenDayCalendar[2 + 1]
           /\ dCheckout = TenDayCalendar[6 + 1]

\* C21: an error raised while evaluating one probe counts as "not yet satisfied"
\* for that probe only: the other probes of the round are still evaluated, the
\* wait polls on until its deadline, and it ends by returning a boolean.
C21_ProbeErrorLocal ==
    /\ ~wSkipped
    /\ (wPc = "done" /\ ~wResult) => ~LoopContinues(wFn, wStart, wNow)

\* C22: a list returned by _scrape_listings has at most 20 records, each with a
\* non-empty title, each read from one of the first 20 elements of the winning
\* tier, and in the order of those elements on the page.
C22_CappedTitledInOrder ==
    lPc = "done" =>
      LET source == IF lCardRan THEN lCards ELSE lSchema
      IN  /\ Len(lListings) <= ScrapeCap
          /\ \A i \in 1..Len(lListings) :
                /\ lListings[i].title # NoTitle
                /\ lListings[i].item \in 1..Min2(Len(source), ScrapeCap)
                /\ lListings[i].title = source[lListings[i].item]
          /\ \A i, j \in 1..Len(lListings) :
                i < j => lListings[i].item < lListings[j].item

\* C22 witness: a page with more than 20 structured elements, the first of
\* them untitled and the one past the cap titled, gave 19 records.
C22_Witness ==
    /\ lPc = "done" /\ ~lCardRan /\ Len(lSchema) = ScrapeCap + 1
    /\ lSchema[1] = NoTitle /\ lSchema[ScrapeCap + 1] # NoTitle
    /\ Len(lListings) = ScrapeCap - 1 /\ lListings[1].item = 2

\* C23: a call of Step02AutoSuggestion.run that does not find the date picker
\* visible at its start clicks the top suggestion through the first tier whose
\* click goes through, never types into the search field, and returns True only
\* if a suggestion click was performed.
C23_ReturnsTrueOnlyAfterClick ==
    (sPc = "returned" /\ ~sPre) =>
        /\ sTyped = 0
        /\ sReturn => sTier \in 1..Len(ClickTiers)

\* C24: when _enter_destination_and_select has typed the destination and no
\* option click went through, Enter has been pressed; Enter is pressed only
\* after every option-click attempt of the loop has failed and never after an
\* option click that went through; the function returns True exactly when an
\* option click went through.
C24_EnterAsLastResort ==
    /\ (ePc = "returned" /\ eTyped > 0 /\ ~eClicked) => eEnter = 1
    /\ eEnter > 0 => (~eClicked /\ eLoop = OptionLoopTries)
    /\ ePc = "returned" => (eReturn = "True" <=> eClicked)

C26_LoopStopsWhenDisabled ==
    /\ kClicks <= kChecksOk
    /\ kDone <= kCount
    /\ kLate = 0

\* C26 (amended): every increment click follows a check that answered True in
\* the same pass and the increments counted never exceed the clicks issued or
\* the number requested; the two Step04GuestPicker loops make no pass after
\* one that found the button not clickable, while the journey loop checks
\* again in each remaining pass.
C26_ClickOnlyAfterCheck ==
    /\ kClicks <= kChecksOk
    /\ kDone <= kClicks
    /\ kDone <= kCount
    /\ kFn # "journey" => kLate = 0

\* C26 witness: the journey loop found the button disabled in its second
\* pass, went on, and counted a click again in its fourth.
C26_Witness ==
    /\ kFn = "journey" /\ kPc = "done" /\ kCount = 4 /\ kLate = 2
    /\ kDone = 2 /\ kClicks = 2 /\ kChecksOk = 2

\* C27: the "dates preserved" verdict is passed exactly when both chosen dates
\* occur in the URL or both occur in the page text, and it is failed whenever
\* the check-in or the check-out value is missing.
C27_DatesVerdict ==
    (vCheck = "dates" /\ vPc = "done") =>
        /\ vPassed <=> \/ (vUrl.checkin /\ vUrl.checkout)
                       \/ (vText.checkin # {} /\ vText.checkout # {})
        /\ ~(vInfo.checkin /\ vInfo.checkout) => ~vPassed

\* C28: the guest-count verdict is passed only when the URL carries the guest
\* count that was selected.
C28_GuestVerdict ==
    (vCheck = "guests" /\ vPc = "done" /\ vPassed) => vUrl.adults = vGuestCount

\* C29: the gallery image URLs the Detail stage returns hold no URL twice and
\* no inline data-URI image, on the gallery-selector path and on the
\* all-images fallback path.
C29_GalleryDedupNoDataUri ==
    iPc = "done" =>
        /\ \A i, j \in 1..Len(iUrls) : iUrls[i] = iUrls[j] => i = j
        /\ \A i \in 1..Len(iUrls) : ~StartsWithData(iUrls[i])

\* C30: the Detail stage opens the listing it selected, by its URL when that
\* is well-formed and otherwise by that listing's card: the page details are
\* read from belongs to the selected listing, and a failed navigation does
\* not raise out of the stage.
C30_OpensSelectedListing ==
    oPc = "done" =>
        /\ ~oRaised
        /\ oPage # NoListing => oPage = oSel

\* C31: when Step03DatePicker records 'Date Selection Validation' as failed,
\* the dict it returns has checkin = None and checkout = None, so the
\* orchestrator's step-3 verdict agrees with the stage's.
C31_FailedReturnsNoDates ==
    (dPc = "done" /\ dPath # "journey" /\ ~dOk) =>
        (dCheckin = NoLabel /\ dCheckout = NoLabel)
\* C32: when the DatePicker stage reports success, exactly two day elements
\* have been clicked during the whole stage, one check-in and then one
\* check-out: no click of an earlier failed attempt or fallback is left over.
C32_ExactlyTwoDayClicks ==
    (qPc = "done" /\ qOk) => (qIn = 1 /\ qOut = 1)

\* C33: after _enter_destination_and_select the search field holds the
\* destination exactly once: the text is never typed a second time into a
\* field that was not cleared first.
C33_DestinationTypedOnce ==
    /\ eField <= 1
    /\ (ePc = "returned" /\ eTyped > 0) => eField = 1

\* C34: if the date picker cannot be opened, Step03DatePicker.run returns
\* checkin = None and checkout = None and clicks no day element and no
\* next-month button; if the guest picker cannot be opened,
\* Step04GuestPicker.run returns 0 and makes no increment click and no search
\* click.
C34_NoPickerNoClicks ==
    (pPc = "done" /\ ~pOpened) =>
        /\ pReturn = EmptyReturn(pStage)
        /\ pPicks = 0
        /\ pNext = 0
        /\ pSearch = 0
        /\ Len(pResults) = 1

C34_Witness ==
    /\ pPc = "done"
    /\ ~pOpened
    /\ pOpeners > 0
    /\ pResults = << [test |-> "open", passed |-> FALSE] >>

\* The TestCase rows of the run are those of steps 1..6 and all passed.
AllSixPassed ==
    /\ Len(cTestCases) = NumSteps
    /\ \A i \in 1..Len(cTestCases) : cTestCases[i].status = "passed"

\* C35 (as stated): Command.handle of run_airbnb_journey ends with the TestRun
\* 'passed' or 'failed' and finished_at set, 'passed' exactly when all six
\* TestCase rows are 'passed'.
C35_PassedIffAllSixPassed ==
    cPc = "done" =>
        /\ cStatus \in {"passed", "failed"}
        /\ cFinished
        /\ cStatus = "passed" <=> AllSixPassed

\* C35 (amended): every run of Command.handle reaches its end, with the
\* TestRun 'passed' or 'failed', never 'running', and finished_at set; the
\* status is 'passed' if and only if no step raised and no fatal error
\* occurred, and then all six TestCase rows are 'passed'.
C35_FinalStatus ==
    /\ [](cPc = "done" =>
            /\ cStatus \in {"passed", "failed"}
            /\ cFinished
            /\ cStatus = "passed" <=>
                  (~cFatal /\ \A i \in 1..Len(cTestCases) : cTestCases[i].status = "passed")
            /\ cStatus = "passed" => AllSixPassed)
    /\ [](cPc # "done" => (cStatus = "running" /\ ~cFinished))
    /\ <>(cPc = "done")

\* C35 witness: the six steps passed, closing the browser raised, and the run
\* ended 'failed'.
C35_Witness ==
    /\ cPc = "done"
    /\ AllSixPassed
    /\ cFatal
    /\ cStatus = "failed"
    /\ cFinished

\* How often event e occurs in a sequence of events.
Occurrences(e, seq) == Cardinality({i \in 1..Len(seq) : seq[i] = e})

\* C36 (as stated): every event the listeners of BrowserManager captured is
\* returned by exactly one drain call: when the run has ended, each captured
\* event is among the drained ones once.
C36_EveryEventDrainedOnce ==
    cPc = "done" => \A e \in 1..cEvents : Occurrences(e, cSaved) = 1

\* C36 (amended): an event captured before a drain is returned by that drain
\* and by no other, a drain leaves both buffers empty, and an event captured
\* after the last drain is in its buffer once and was returned by no drain.
C36_DrainedOnceOrBuffered ==
    /\ cMark <= cEvents
    /\ \A e \in 1..cEvents :
          IF e <= cMark
            THEN /\ Occurrences(e, cSaved) = 1
                 /\ Occurrences(e, cNetBuf) + Occurrences(e, cConBuf) = 0
            ELSE /\ Occurrences(e, cSaved) = 0
                 /\ Occurrences(e, cNetBuf) + Occurrences(e, cConBuf) = 1

\* C36 witness: the run has ended with one event drained after a step and one
\* captured while the browser was closed, still in its buffer.
C36_Witness ==
    /\ cPc = "done"
    /\ cEvents = 2
    /\ cMark = 1
    /\ cSaved = <<1>>
    /\ Len(cNetBuf) + Len(cConBuf) = 1

\* C37: in run_airbnb_automation each captured console or network log entry
\* is handed to the result sink at most once per run.
C37_HandedAtMostOnce ==
    \A e \in 1..mEvents : Occurrences(e, mHanded) <= 1

====
